---------------------------- MODULE Spec2Model ----------------------------
(***************************************************************************)
(* A model of the mock Salesforce data generator                           *)
(* (src/src/extract/generate_mock_data.py): the generators, their record   *)
(* constructors and main, which runs the generators in order and writes    *)
(* one JSON file per collection; and of the loader of those files          *)
(* (src/src/load/load_to_postgres.py).                                     *)
(*                                                                         *)
(* Conventions.                                                            *)
(*   - A datetime is its proleptic Gregorian ordinal (datetime.toordinal); *)
(*     the generators only ever add whole days to midnight datetimes.      *)
(*     datetime.now() is the ordinal of today: it carries a time of day    *)
(*     after midnight, which the comparisons with it take into account.    *)
(*   - A formatted date (isoformat, strftime('%Y-%m-%d')) is the tuple     *)
(*     <<year, month, day>>.                                               *)
(*   - An identifier is <<prefix, suffix>>; None is the empty tuple.       *)
(*   - Money is in cents, so round(x, 2) is rounding to an integer.        *)
(*   - The random source is modelled by nondeterministic choice.  The      *)
(*     variable draws holds, per call site, the sample of the variate's    *)
(*     support that a specification explores.                              *)
(***************************************************************************)
EXTENDS Integers, Sequences, FiniteSets, TLC

VARIABLES
    pc,                 \* main's position: the generator running, "done" or "raised"
    i,                  \* the running generator's loop counter
    cfg,                \* the NUM_* configuration constants
    now,                \* datetime.now(), as an ordinal
    draws,              \* the samples of the random variates explored
    nids,               \* identifiers allocated so far by generate_sf_id
    bound,              \* main's local variables assigned so far
    saved,              \* files written to the output directory
    err,                \* the exception that left main and the generator that
                        \* raised it; NoError when none did
    users, accounts, contacts, leads, campaigns,
    products, pricebook_entries, opportunities, line_items,
    campaign_members, tasks,
    twin,               \* when twin.on: what a second run, started at twin.now
                        \* and making the same draws, has generated
    db,                 \* the loader's side: the JSON file it is given, the
                        \* rows of the target table, the loads completed
    call,               \* a call of a helper on its own: its arguments and
                        \* <<the value returned>>, <<>> while there is none
    loader,             \* a run of the loader's main: the files of the data
                        \* directory, the open transaction, the tables
    dag                 \* a run of the salesforce_pipeline DAG: the state and
                        \* the tries of each task

collections == <<users, accounts, contacts, leads, campaigns, products,
                 pricebook_entries, opportunities, line_items,
                 campaign_members, tasks>>

vars == <<pc, i, cfg, now, draws, nids, bound, saved, err, collections, twin, db,
          call, loader, dag>>

None == <<>>

NoError == [type |-> "", raised_in |-> ""]

Max(a, b) == IF a >= b THEN a ELSE b

Min(a, b) == IF a <= b THEN a ELSE b

Range(s) == {s[k] : k \in DOMAIN s}

RECURSIVE SumSeq(_)
SumSeq(s) == IF s = <<>> THEN 0 ELSE Head(s) + SumSeq(Tail(s))

-----------------------------------------------------------------------------
(* Configuration *)

START_DATE == 738521      \* datetime(2023, 1, 1).toordinal()

END_DATE == 739266        \* datetime(2025, 1, 15).toordinal()

-----------------------------------------------------------------------------
(* The calendar: datetime's ordinal <-> (year, month, day) *)

IsLeap(y) == (y % 4 = 0) /\ ((y % 100 # 0) \/ (y % 400 = 0))

DaysInMonth(y, m) ==
    IF m = 2 THEN (IF IsLeap(y) THEN 29 ELSE 28)
    ELSE IF m \in {4, 6, 9, 11} THEN 30 ELSE 31

DaysBeforeYear(y) ==
    (y - 1) * 365 + ((y - 1) \div 4) - ((y - 1) \div 100) + ((y - 1) \div 400)

RECURSIVE DaysBeforeMonth(_, _)
DaysBeforeMonth(y, m) ==
    IF m = 1 THEN 0 ELSE DaysBeforeMonth(y, m - 1) + DaysInMonth(y, m - 1)

\* datetime(y, m, d).toordinal()
ToOrdinal(y, m, d) == DaysBeforeYear(y) + DaysBeforeMonth(y, m) + d

\* the year of the date with ordinal n
YearOf(n) ==
    LET n0   == n - 1
        n400 == n0 \div 146097
        r400 == n0 % 146097
        n100 == r400 \div 36524
        r100 == r400 % 36524
        n4   == r100 \div 1461
        r4   == r100 % 1461
        n1   == r4 \div 365
        y    == n400 * 400 + n100 * 100 + n4 * 4 + n1 + 1
    IN  IF n1 = 4 \/ n100 = 4 THEN y - 1 ELSE y

MonthOf(n) ==
    LET y == YearOf(n)
        r == n - DaysBeforeYear(y)
    IN  CHOOSE m \in 1..12 :
            DaysBeforeMonth(y, m) < r /\ r <= DaysBeforeMonth(y, m) + DaysInMonth(y, m)

DayOf(n) == n - DaysBeforeYear(YearOf(n)) - DaysBeforeMonth(YearOf(n), MonthOf(n))

\* date.strftime('%Y-%m-%d'), and date.isoformat() of a midnight datetime
FormatDate(n) == <<YearOf(n), MonthOf(n), DayOf(n)>>

\* datetime.fromisoformat
ParseDate(s) == ToOrdinal(s[1], s[2], s[3])

-----------------------------------------------------------------------------
(* The random source *)

\* random.randint(a, b), over the sample S of its outcomes
randint(a, b, S) == {x \in S : a <= x /\ x <= b}

\* k successive suffixes of generate_sf_id: 15 random characters each.  With
\* draws.idspace = 0 the run explored is one where no two allocations draw
\* the same characters; otherwise each suffix is any of 1..draws.idspace,
\* except in the generators of draws.idfresh.
IdDraws(k) ==
    IF draws.idspace = 0 \/ pc \in draws.idfresh
    THEN {[j \in 1..k |-> nids + j]}
    ELSE [1..k -> 1..draws.idspace]

generate_sf_id(prefix, suffix) == <<prefix, suffix>>

\* random.choice(seq), for a non-empty seq: the element at the index drawn,
\* over the sample S of the draws (a draw k is the index k modulo the length)
choice(seq, S) == {seq[(k % Len(seq)) + 1] : k \in S}

\* random.sample(pool, k), for k <= len(pool): sequences of k distinct indices
\* of pool.  With draws.sample = "any" every sample is explored; with "run",
\* the runs of k consecutive elements that start after draws.sample_start
\* elements (wrapping around).
Samples(pool, k) ==
    IF draws.sample = "any"
    THEN {sel \in [1..k -> DOMAIN pool] :
            \A a, b \in 1..k : a # b => sel[a] # sel[b]}
    ELSE {[j \in 1..k |-> ((r + j - 1) % Len(pool)) + 1] : r \in draws.sample_start}

\* random.sample(pool, k) raises ValueError when k exceeds len(pool)
sample_raises(pool, k) == k > Len(pool) \/ k < 0

\* mutant: the sample is asked for the number wanted, whatever the pool holds
SampleSizeUncapped(requested, pool) == requested

\* min(requested, len(pool)): the number random.sample is asked for
SampleSize(requested, pool) == Min(requested, Len(pool))

\* mutant: the date is one day later
random_date_next_day(start, end, S) == {start + k + 1 : k \in randint(0, end - start, S)}

\* random_date(start, end): start + randint(0, (end - start).days) days
random_date(start, end, S) == {start + k : k \in randint(0, end - start, S)}

\* randint(0, n) raises ValueError for n < 0
random_date_raises(start, end) == end - start < 0

\* the loader's main is not run
NoLoader == [files |-> <<>>, at |-> 0, tx |-> 0, tables |-> <<>>, conn |-> "closed"]

\* the DAG is not run
NoDag == [state |-> <<>>, try_number |-> <<>>]

\* no helper is called on its own
NoCall == [start |-> 0, end |-> 0, returned |-> <<>>]

\* the longest range, in days, explored for a call of random_date
MaxSpan == 7

\* random_date(call.start, call.end) returns
call_random_date ==
    /\ pc = "random_date"
    /\ ~random_date_raises(call.start, call.end)
    /\ \E date \in random_date(call.start, call.end, 0..MaxSpan) :
          call' = [call EXCEPT !.returned = <<date>>]
    /\ pc' = "done"
    /\ UNCHANGED <<db, loader, dag, i, cfg, now, draws, nids, bound, saved, err, users, accounts,
                   contacts, leads, campaigns, products, pricebook_entries,
                   opportunities, line_items, campaign_members, tasks, twin>>

\* random.randint(0, delta.days) raises: nothing is returned
call_random_date_raises ==
    /\ pc = "random_date"
    /\ random_date_raises(call.start, call.end)
    /\ pc' = "raised"
    /\ err' = [type |-> "ValueError", raised_in |-> pc]
    /\ UNCHANGED <<db, call, loader, dag, i, cfg, now, draws, nids, bound, saved, users,
                   accounts, contacts, leads, campaigns, products,
                   pricebook_entries, opportunities, line_items,
                   campaign_members, tasks, twin>>

-----------------------------------------------------------------------------
(* main: the order of the generator calls, what each is passed, what each
   call assigns and which files are written after it *)

\* mutant: contacts are generated before the accounts they belong to
MainOrderContactsFirst ==
    <<"users", "contacts", "accounts", "leads", "campaigns", "products",
      "opportunities", "campaign_members", "activities">>

MainOrder ==
    <<"users", "accounts", "contacts", "leads", "campaigns", "products",
      "opportunities", "campaign_members", "activities">>

Generators == Range(MainOrder)

Args(g) ==
    CASE g = "users"            -> {}
      [] g = "accounts"         -> {"users"}
      [] g = "contacts"         -> {"accounts", "users"}
      [] g = "leads"            -> {"users"}
      [] g = "campaigns"        -> {"users"}
      [] g = "products"         -> {}
      [] g = "opportunities"    -> {"accounts", "users", "products", "pricebook_entries"}
      [] g = "campaign_members" -> {"campaigns", "leads", "contacts"}
      [] g = "activities"       -> {"accounts", "contacts", "opportunities", "users"}

Returns(g) ==
    CASE g = "products"      -> {"products", "pricebook_entries"}
      [] g = "opportunities" -> {"opportunities", "line_items"}
      [] g = "activities"    -> {"tasks"}
      [] OTHER               -> {g}

\* mutant: the pricebook entries are generated but never written
FilesWithoutPricebook(g) ==
    CASE g = "opportunities" -> {"opportunities.json", "opportunity_line_items.json"}
      [] g = "products"      -> {"products.json"}
      [] g = "activities"    -> {"tasks.json"}
      [] OTHER               -> {g \o ".json"}

Files(g) ==
    CASE g = "opportunities" -> {"opportunities.json", "opportunity_line_items.json"}
      [] g = "products"      -> {"products.json", "pricebook_entries.json"}
      [] g = "users"            -> {"users.json"}
      [] g = "accounts"         -> {"accounts.json"}
      [] g = "contacts"         -> {"contacts.json"}
      [] g = "leads"            -> {"leads.json"}
      [] g = "campaigns"        -> {"campaigns.json"}
      [] g = "campaign_members" -> {"campaign_members.json"}
      [] g = "activities"       -> {"tasks.json"}

IndexOf(g) == CHOOSE k \in DOMAIN MainOrder : MainOrder[k] = g

\* the statement of main after generator g has returned and its files are saved
After(g) ==
    IF IndexOf(g) = Len(MainOrder) THEN "done" ELSE MainOrder[IndexOf(g) + 1]

-----------------------------------------------------------------------------
(* generate_users *)

\* active_users = [u for u in users if u.IsActive]
ActiveUsers == SelectSeq(users, LAMBDA u : u.IsActive)

\* mutant: the owner is chosen among all users, active or not
OwnersAmongAllUsers == choice(users, draws.owner)

\* random.choice(active_users)
Owners == choice(ActiveUsers, draws.owner)

User(id, role, manager, active) ==
    [Id |-> id, UserRoleId |-> role, ManagerId |-> manager, IsActive |-> active]

\* "Create a manager first"
Manager(ids) ==
    User(generate_sf_id("005", ids[1]), generate_sf_id("00E", ids[2]), None, TRUE)

\* mutant: a sales rep is created like the manager, reporting to nobody
SalesRepWithoutManager(ids, manager_id, active) ==
    User(generate_sf_id("005", ids[1]), generate_sf_id("00E", ids[2]), None, active)

\* "Create sales reps reporting to manager"
SalesRep(ids, manager_id, active) ==
    User(generate_sf_id("005", ids[1]), generate_sf_id("00E", ids[2]), manager_id, active)

generate_users_manager ==
    /\ pc = "users"
    /\ users = <<>>
    /\ \E ids \in IdDraws(2) :
        /\ users' = Append(users, Manager(ids))
        /\ nids' = nids + 2
    /\ UNCHANGED <<db, call, loader, dag, pc, i, cfg, now, draws, bound, saved, err, accounts, contacts,
                   leads, campaigns, products, pricebook_entries, opportunities,
                   line_items, campaign_members, tasks, twin>>

generate_users_rep ==
    /\ pc = "users"
    /\ users # <<>>
    /\ i < cfg.users - 1
    /\ \E ids \in IdDraws(2), active \in draws.active :
        /\ users' = Append(users, SalesRep(ids, users[1].Id, active))
        /\ nids' = nids + 2
    /\ i' = i + 1
    /\ UNCHANGED <<db, call, loader, dag, pc, cfg, now, draws, bound, saved, err, accounts, contacts,
                   leads, campaigns, products, pricebook_entries, opportunities,
                   line_items, campaign_members, tasks, twin>>

-----------------------------------------------------------------------------
(* generate_accounts *)

\* mutant: the floor of 10 without the cap at 100000
AccountEmployeesUncapped(x) == Max(10, x)

\* int(max(10, lognormvariate)) capped at 100000
AccountEmployees(x) == Min(Max(10, x), 100000)

\* mutant: the modification is dated before the creation
AccountModifiedEarlier(id, employees, owner, created, modified_after) ==
    [Id |-> id, NumberOfEmployees |-> employees, OwnerId |-> owner.Id,
     CreatedDate |-> FormatDate(created),
     LastModifiedDate |-> FormatDate(created - modified_after)]

\* the fields of an account that the properties read
Account(id, employees, owner, created, modified_after) ==
    [Id |-> id, NumberOfEmployees |-> employees, OwnerId |-> owner.Id,
     CreatedDate |-> FormatDate(created),
     LastModifiedDate |-> FormatDate(created + modified_after)]

generate_accounts ==
    /\ pc = "accounts"
    /\ i < cfg.accounts
    /\ \E ids \in IdDraws(1), x \in draws.acct_lognorm, owner \in Owners,
          created \in random_date(START_DATE, END_DATE, draws.acct_created),
          m \in randint(0, 30, draws.acct_modified) :
        /\ accounts' = Append(accounts,
              Account(generate_sf_id("001", ids[1]), AccountEmployees(x), owner, created, m))
        /\ nids' = nids + 1
    /\ i' = i + 1
    /\ UNCHANGED <<db, call, loader, dag, pc, cfg, now, draws, bound, saved, err, users, contacts,
                   leads, campaigns, products, pricebook_entries, opportunities,
                   line_items, campaign_members, tasks, twin>>

-----------------------------------------------------------------------------
(* generate_contacts *)

\* the upper end of the range num_contacts is drawn from
ContactsCap(account) == Min(5, Max(1, account.NumberOfEmployees \div 100))

\* mutant: random.randint(1, 5), whatever the size of the account
NumContactsAnySize(account) == randint(1, 5, draws.num_contacts)

\* random.randint(1, min(5, max(1, account.NumberOfEmployees // 100)))
NumContacts(account) == randint(1, ContactsCap(account), draws.num_contacts)

\* mutant: the contact's account reference is the contact's own identifier
ContactOfItself(id, account) ==
    [Id |-> id, AccountId |-> id, OwnerId |-> account.OwnerId,
     CreatedDate |-> account.CreatedDate]

Contact(id, account) ==
    [Id |-> id, AccountId |-> account.Id, OwnerId |-> account.OwnerId,
     CreatedDate |-> account.CreatedDate]

\* one iteration of "for account in accounts": the account's contacts
generate_contacts ==
    /\ pc = "contacts"
    /\ i < Len(accounts)
    /\ \E n \in NumContacts(accounts[i + 1]) :
        \E ids \in IdDraws(n) :
            /\ contacts' = contacts \o
                  [j \in 1..n |-> Contact(generate_sf_id("003", ids[j]), accounts[i + 1])]
            /\ nids' = nids + n
    /\ i' = i + 1
    /\ UNCHANGED <<db, call, loader, dag, pc, cfg, now, draws, bound, saved, err, users, accounts,
                   leads, campaigns, products, pricebook_entries, opportunities,
                   line_items, campaign_members, tasks, twin>>

-----------------------------------------------------------------------------
(* generate_leads *)

LEAD_STATUSES ==
    <<"Open - Not Contacted", "Working - Contacted", "Closed - Converted",
      "Closed - Not Converted">>

\* int(max(10, lognormvariate)) capped at 50000
LeadEmployees(x) == Min(Max(10, x), 50000)

\* identifiers one lead allocates: the placeholders of a converted lead
\* (account, contact, and the opportunity when it has one), then the lead's own
LeadIdCount(is_converted, has_opportunity) ==
    IF is_converted THEN (IF has_opportunity THEN 4 ELSE 3) ELSE 1

\* mutant: ConvertedDate is left unset on a converted lead
LeadWithoutConvertedDate(ids, owner, d) ==
    LET n == LeadIdCount(d.is_converted, d.has_opportunity)
    IN  [Id |-> generate_sf_id("00Q", ids[n]),
         Status |-> IF d.is_converted THEN "Closed - Converted"
                    ELSE LEAD_STATUSES[d.status],
         NumberOfEmployees |-> LeadEmployees(d.lognorm),
         OwnerId |-> owner.Id,
         IsConverted |-> d.is_converted,
         ConvertedAccountId |->
             IF d.is_converted THEN generate_sf_id("001", ids[1]) ELSE None,
         ConvertedContactId |->
             IF d.is_converted THEN generate_sf_id("003", ids[2]) ELSE None,
         ConvertedOpportunityId |->
             IF d.is_converted /\ d.has_opportunity
             THEN generate_sf_id("006", ids[3]) ELSE None,
         ConvertedDate |-> None,
         CreatedDate |-> FormatDate(d.created),
         LastModifiedDate |-> FormatDate(d.created + d.modified_after)]

\* d: the draws of one iteration; ids: the suffixes it allocates
Lead(ids, owner, d) ==
    LET n == LeadIdCount(d.is_converted, d.has_opportunity)
    IN  [Id |-> generate_sf_id("00Q", ids[n]),
         Status |-> IF d.is_converted THEN "Closed - Converted"
                    ELSE LEAD_STATUSES[d.status],
         NumberOfEmployees |-> LeadEmployees(d.lognorm),
         OwnerId |-> owner.Id,
         IsConverted |-> d.is_converted,
         ConvertedAccountId |->
             IF d.is_converted THEN generate_sf_id("001", ids[1]) ELSE None,
         ConvertedContactId |->
             IF d.is_converted THEN generate_sf_id("003", ids[2]) ELSE None,
         ConvertedOpportunityId |->
             IF d.is_converted /\ d.has_opportunity
             THEN generate_sf_id("006", ids[3]) ELSE None,
         ConvertedDate |->
             IF d.is_converted THEN FormatDate(d.created + d.converted_after)
             ELSE None,
         CreatedDate |-> FormatDate(d.created),
         LastModifiedDate |-> FormatDate(d.created + d.modified_after)]

\* mutant: the status of an unconverted lead is any of LEAD_STATUSES
LeadDrawsAnyStatus ==
    [created         : random_date(START_DATE, END_DATE, draws.lead_created),
     is_converted    : draws.is_converted,
     converted_after : randint(7, 90, draws.converted_after),
     has_opportunity : draws.has_opportunity,
     status          : randint(1, 4, draws.lead_status),
     lognorm         : draws.lead_lognorm,
     modified_after  : randint(1, 30, draws.lead_modified)]

\* the draws of one iteration; status indexes LEAD_STATUSES[:2]
LeadDraws ==
    [created         : random_date(START_DATE, END_DATE, draws.lead_created),
     is_converted    : draws.is_converted,
     converted_after : randint(7, 90, draws.converted_after),
     has_opportunity : draws.has_opportunity,
     status          : randint(1, 2, draws.lead_status),
     lognorm         : draws.lead_lognorm,
     modified_after  : randint(1, 30, draws.lead_modified)]

generate_leads ==
    /\ pc = "leads"
    /\ i < cfg.leads
    /\ \E d \in LeadDraws, owner \in Owners :
        \E ids \in IdDraws(LeadIdCount(d.is_converted, d.has_opportunity)) :
            /\ leads' = Append(leads, Lead(ids, owner, d))
            /\ nids' = nids + LeadIdCount(d.is_converted, d.has_opportunity)
    /\ i' = i + 1
    /\ UNCHANGED <<db, call, loader, dag, pc, cfg, now, draws, bound, saved, err, users, accounts,
                   contacts, campaigns, products, pricebook_entries,
                   opportunities, line_items, campaign_members, tasks, twin>>

-----------------------------------------------------------------------------
(* generate_campaigns *)

CAMPAIGN_TYPES ==
    <<"Email", "Webinar", "Conference", "Trade Show", "Direct Mail",
      "Advertisement", "Telemarketing", "Partners">>

\* end_date < datetime.now(): end_date is a midnight, t has a time of day
EndedBefore(end_date, t) == end_date <= t

\* start_date > datetime.now()
StartsAfter(start_date, t) == start_date > t

\* mutant: a campaign that has not ended is in progress, started or not
CampaignStatusNeverPlanned(start_date, end_date, ended_status, t) ==
    IF EndedBefore(end_date, t) THEN ended_status ELSE "In Progress"

\* the status of a campaign generated at time t; ended_status is the outcome of
\* random.choice(['Completed', 'Aborted']) if random.random() < 0.9 else 'Completed'
CampaignStatus(start_date, end_date, ended_status, t) ==
    IF EndedBefore(end_date, t) THEN ended_status
    ELSE IF StartsAfter(start_date, t) THEN "Planned"
    ELSE "In Progress"

\* mutant: the cost is computed whether the campaign has ended or not
ActualCostWhenever(budgeted_cost, cost_pct, end_date, t) == budgeted_cost * cost_pct

\* round(budgeted_cost * uniform(0.7, 1.2), 2) if is_completed else 0, in
\* cents: budgeted_cost is whole dollars and the factor is cost_pct / 100
ActualCost(budgeted_cost, cost_pct, end_date, t) ==
    IF EndedBefore(end_date, t) THEN budgeted_cost * cost_pct ELSE 0

\* a campaign of either pass, generated at time t from the draws d
Campaign(id, parent_id, owner, d, t) ==
    LET start_date == d.created + d.start_after
        end_date   == start_date + d.duration
        status     == CampaignStatus(start_date, end_date, d.ended_status, t)
    IN  [Id |-> id,
         Type |-> CAMPAIGN_TYPES[d.type],
         Status |-> status,
         StartDate |-> FormatDate(start_date),
         EndDate |-> FormatDate(end_date),
         IsActive |-> (status = "In Progress"),
         BudgetedCost |-> d.budgeted_cost * 100,
         ActualCost |-> ActualCost(d.budgeted_cost, d.cost_pct, end_date, t),
         NumberSent |-> d.number_sent,
         ParentId |-> parent_id,
         OwnerId |-> owner.Id,
         CreatedDate |-> FormatDate(d.created),
         LastModifiedDate |-> FormatDate(d.created + d.modified_after)]

\* num_parent_campaigns = max(1, NUM_CAMPAIGNS // 10)
NumParentCampaigns == Max(1, cfg.campaigns \div 10)

ParentCampaignDraws ==
    [created        : random_date(START_DATE - 180, END_DATE - 90, draws.campaign_created),
     start_after    : randint(7, 30, draws.start_after),
     duration       : randint(30, 180, draws.duration),
     ended_status   : draws.ended_status,
     type           : randint(1, 8, draws.campaign_type),
     budgeted_cost  : randint(5000, 100000, draws.budgeted_cost),
     cost_pct       : randint(70, 120, draws.cost_pct),
     number_sent    : randint(100, 5000, draws.number_sent),
     modified_after : randint(1, 30, draws.campaign_modified)]

ChildCampaignDraws ==
    [created        : random_date(START_DATE, END_DATE - 30, draws.campaign_created),
     start_after    : randint(7, 30, draws.start_after),
     duration       : randint(7, 90, draws.duration),
     ended_status   : draws.ended_status,
     type           : randint(1, 8, draws.campaign_type),
     budgeted_cost  : randint(1000, 50000, draws.budgeted_cost),
     cost_pct       : randint(70, 120, draws.cost_pct),
     number_sent    : randint(50, 2000, draws.number_sent),
     modified_after : randint(1, 30, draws.campaign_modified)]

\* mutant: the identifiers of every campaign generated so far
ParentCampaignIdsOfAll(cs) == [k \in 1..Len(cs) |-> cs[k].Id]

\* parent_campaign_ids: the identifiers of the first pass
ParentCampaignIds(cs) == [k \in 1..Min(Len(cs), NumParentCampaigns) |-> cs[k].Id]

\* random.choice(parent_campaign_ids) if random.random() < 0.5 else None
ParentChoices(cs) ==
    UNION {IF has_parent THEN choice(ParentCampaignIds(cs), draws.parent) ELSE {None} :
           has_parent \in draws.has_parent}

\* "Generate parent campaigns first"
generate_campaigns_parent ==
    /\ pc = "campaigns"
    /\ i < NumParentCampaigns
    /\ \E ids \in IdDraws(1), d \in ParentCampaignDraws, owner \in Owners :
        /\ campaigns' = Append(campaigns,
              Campaign(generate_sf_id("701", ids[1]), None, owner, d, now))
        /\ twin' = IF twin.on
                   THEN [twin EXCEPT !.campaigns = Append(@,
                           Campaign(generate_sf_id("701", ids[1]), None, owner, d,
                                    twin.now))]
                   ELSE twin
        /\ nids' = nids + 1
    /\ i' = i + 1
    /\ UNCHANGED <<db, call, loader, dag, pc, cfg, now, draws, bound, saved, err, users, accounts,
                   contacts, leads, products, pricebook_entries, opportunities,
                   line_items, campaign_members, tasks>>

\* "Generate child campaigns (rest are children)"
generate_campaigns_child ==
    /\ pc = "campaigns"
    /\ i >= NumParentCampaigns
    /\ i - NumParentCampaigns < cfg.campaigns - NumParentCampaigns
    /\ \E ids \in IdDraws(1), d \in ChildCampaignDraws, owner \in Owners,
          parent_id \in ParentChoices(campaigns) :
        /\ campaigns' = Append(campaigns,
              Campaign(generate_sf_id("701", ids[1]), parent_id, owner, d, now))
        /\ twin' = IF twin.on
                   THEN [twin EXCEPT !.campaigns = Append(@,
                           Campaign(generate_sf_id("701", ids[1]), parent_id, owner,
                                    d, twin.now))]
                   ELSE twin
        /\ nids' = nids + 1
    /\ i' = i + 1
    /\ UNCHANGED <<db, call, loader, dag, pc, cfg, now, draws, bound, saved, err, users, accounts,
                   contacts, leads, products, pricebook_entries, opportunities,
                   line_items, campaign_members, tasks>>

-----------------------------------------------------------------------------
(* generate_products *)

\* base_price of product_names, in cents
BasePrices ==
    <<5000000, 1500000, 500000, 2500000, 1000000, 1200000, 500000, 200000,
      300000, 800000>>

Product(id) == [Id |-> id]

PricebookEntry(id, product_id, base_price) ==
    [Id |-> id, Product2Id |-> product_id, UnitPrice |-> base_price]

\* one iteration of "for name, family, code, base_price in product_names"
generate_products ==
    /\ pc = "products"
    /\ i < Len(BasePrices)
    /\ \E ids \in IdDraws(2) :
        /\ products' = Append(products, Product(generate_sf_id("01t", ids[1])))
        /\ pricebook_entries' = Append(pricebook_entries,
              PricebookEntry(generate_sf_id("01u", ids[2]),
                             generate_sf_id("01t", ids[1]), BasePrices[i + 1]))
        /\ nids' = nids + 2
    /\ i' = i + 1
    /\ UNCHANGED <<db, call, loader, dag, pc, cfg, now, draws, bound, saved, err, users, accounts,
                   contacts, leads, campaigns, opportunities, line_items,
                   campaign_members, tasks, twin>>

-----------------------------------------------------------------------------
(* random_date_weighted_quarter_end *)

\* quarter_end_month = ((month - 1) // 3 + 1) * 3
QuarterEndMonth(month) == ((month - 1) \div 3 + 1) * 3

\* the last day random.randint(20, ..) can draw for the quarter end of date
QuarterEndLastDay(date) == IF QuarterEndMonth(MonthOf(date)) = 12 THEN 31 ELSE 28

\* date.replace(month=quarter_end_month, day=day)
MoveToQuarterEnd(date, day) ==
    ToOrdinal(YearOf(date), QuarterEndMonth(MonthOf(date)), day)

\* random_date_weighted_quarter_end(start, end), from its draws: offset is
\* randint(0, (end - start).days), moved is random.random() < 0.30 and day is
\* the randint(20, 31) or randint(20, 28) of the branch taken
random_date_weighted_quarter_end(start, end, offset, moved, day) ==
    IF moved THEN MoveToQuarterEnd(start + offset, day) ELSE start + offset

-----------------------------------------------------------------------------
(* generate_opportunities *)

\* (StageName, Probability)
STAGES ==
    <<<<"Prospecting", 10>>, <<"Qualification", 20>>, <<"Needs Analysis", 40>>,
      <<"Value Proposition", 60>>, <<"Negotiation", 80>>, <<"Closed Won", 100>>,
      <<"Closed Lost", 0>>>>

\* n / q rounded to the nearest integer (halves up), for n >= 0 and q > 0
Round(n, q) == (2 * n + q) \div (2 * q)

\* round(base_amount * (1 + employees / 10000), 2) bounded to [$1k, $500k], in
\* cents; base_amount is the lognormvariate(9, 1.2) draw, in cents
OpportunityAmount(base_amount, employees) ==
    LET scaled == base_amount + (base_amount \div 10000) * employees
                    + Round((base_amount % 10000) * employees, 10000)
    IN  Max(100000, Min(scaled, 50000000))

\* days_old = (END_DATE - created_date).days
DaysOld(created) == END_DATE - created

\* the indices into STAGES that random.choice draws from, by age and by the
\* outcome of the "are closed" draw (closed is FALSE for a new deal)
StageChoices(days_old, closed) ==
    IF days_old > 180 THEN (IF closed THEN {6, 7} ELSE 1..5)
    ELSE IF days_old > 90 THEN (IF closed THEN {6, 7} ELSE 3..5)
    ELSE 1..4

\* mutant: a deal of exactly 90 days is of medium age
IsClosedFromNinety(days_old, closed) == days_old >= 90 /\ closed

\* is_closed after the age branch: new deals are never closed
IsClosedAt(days_old, closed) == days_old > 90 /\ closed

\* "Large deals have lower win rate": the stage after the downgrade
Downgraded(is_closed, amount, downgrade) ==
    is_closed /\ amount > 10000000 /\ downgrade

\* mutant: the downgrade of a large deal leaves prob as it was drawn
OpportunityStageKeepingProb(d, amount) ==
    LET days_old  == DaysOld(d.created)
        is_closed == IsClosedAt(days_old, d.closed)
        stage     == STAGES[d.stage][1]
        prob      == STAGES[d.stage][2]
        is_won    == is_closed /\ stage = "Closed Won"
    IN  IF Downgraded(is_closed, amount, d.downgrade)
        THEN [StageName |-> "Closed Lost", Probability |-> prob,
              IsClosed |-> is_closed, IsWon |-> FALSE]
        ELSE [StageName |-> stage, Probability |-> prob,
              IsClosed |-> is_closed, IsWon |-> is_won]

\* stage, prob, is_closed and is_won of an opportunity, from its draws
OpportunityStage(d, amount) ==
    LET days_old  == DaysOld(d.created)
        is_closed == IsClosedAt(days_old, d.closed)
        stage     == STAGES[d.stage][1]
        prob      == STAGES[d.stage][2]
        is_won    == is_closed /\ stage = "Closed Won"
    IN  IF Downgraded(is_closed, amount, d.downgrade)
        THEN [StageName |-> "Closed Lost", Probability |-> 0,
              IsClosed |-> is_closed, IsWon |-> FALSE]
        ELSE [StageName |-> stage, Probability |-> prob,
              IsClosed |-> is_closed, IsWon |-> is_won]

\* close_date of an opportunity generated at time t
CloseDate(d, is_closed, t) ==
    IF is_closed
    THEN d.created + d.close_after
    ELSE random_date_weighted_quarter_end(t, t + 180, d.close_offset,
                                          d.quarter_end, d.quarter_end_day)

\* an opportunity generated at time t from the draws d
Opportunity(id, account, owner, d, t) ==
    LET amount == OpportunityAmount(d.base_amount, account.NumberOfEmployees)
        s      == OpportunityStage(d, amount)
    IN  [Id |-> id,
         AccountId |-> account.Id,
         StageName |-> s.StageName,
         Amount |-> amount,
         Probability |-> s.Probability,
         CloseDate |-> FormatDate(CloseDate(d, s.IsClosed, t)),
         OwnerId |-> owner.Id,
         IsClosed |-> s.IsClosed,
         IsWon |-> s.IsWon,
         CreatedDate |-> FormatDate(d.created),
         LastModifiedDate |-> FormatDate(d.created + d.modified_after)]

\* product_prices = {pbe.Product2Id: pbe.UnitPrice for pbe in pricebook_entries}
\* and product_prices.get(product.Id, 10000): the last entry of the product wins
UnitPriceOf(product_id) ==
    LET ks == {k \in DOMAIN pricebook_entries :
                 pricebook_entries[k].Product2Id = product_id}
    IN  IF ks = {} THEN 1000000
        ELSE pricebook_entries[CHOOSE k \in ks : \A l \in ks : l <= k].UnitPrice

\* round(remaining_amount * uniform(0.2, 0.5), 2): the factor is 1 / q
ItemShare(remaining_amount, q) == Round(remaining_amount, q)

\* item_amount of the j-th of n selected products; qs[j] is the draw of the
\* j-th item that is not the last
RECURSIVE ItemAmount(_, _, _, _)
ItemAmount(amount, qs, n, j) ==
    LET before    == SumSeq([a \in 1..(j - 1) |-> ItemAmount(amount, qs, n, a)])
        remaining == amount - before
    IN  IF j = n THEN remaining ELSE ItemShare(remaining, qs[j])

\* mutant: the quotient is rounded to the nearest integer instead of truncated
QuantityRounded(item_amount, unit_price) == Max(1, Round(item_amount, unit_price))

\* quantity = max(1, int(item_amount / unit_price))
Quantity(item_amount, unit_price) == Max(1, item_amount \div unit_price)

\* TotalPrice = round(quantity * unit_price, 2)
TotalPrice(quantity, unit_price) == quantity * unit_price

\* the record of a line item; item_amount is not a field of it: it keeps
\* the value of the local variable the quantity was derived from
OpportunityLineItem(id, opp_id, product, item_amount) ==
    LET unit_price == UnitPriceOf(product.Id)
        quantity   == Quantity(item_amount, unit_price)
    IN  [Id |-> id, OpportunityId |-> opp_id, Product2Id |-> product.Id,
         Quantity |-> quantity, UnitPrice |-> unit_price,
         TotalPrice |-> TotalPrice(quantity, unit_price),
         item_amount |-> item_amount]

\* the line items of one opportunity: sel the sampled products, qs the shares
LineItems(ids, opp, sel, qs) ==
    [j \in 1..Len(sel) |->
        OpportunityLineItem(generate_sf_id("00k", ids[j + 1]), opp.Id,
                            products[sel[j]],
                            ItemAmount(opp.Amount, qs, Len(sel), j))]

\* the draws of one iteration that the branches taken at time t can make
OpportunityDraws(t) ==
    {d \in [created         : random_date(START_DATE, END_DATE - 30, draws.opp_created),
            base_amount     : draws.base_amount,
            closed          : draws.closed,
            stage           : draws.stage,
            downgrade       : draws.downgrade,
            close_after     : randint(30, 180, draws.close_after),
            close_offset    : randint(0, 180, draws.close_offset),
            quarter_end     : draws.quarter_end,
            quarter_end_day : randint(20, 31, draws.quarter_end_day),
            modified_after  : randint(1, 60, draws.opp_modified),
            num_products    : randint(1, 3, draws.num_products)] :
        /\ d.stage \in StageChoices(DaysOld(d.created), d.closed)
        /\ d.quarter_end_day <= QuarterEndLastDay(t + d.close_offset)}

\* one iteration of "for i in range(NUM_OPPORTUNITIES)": an opportunity and
\* its line items
generate_opportunities ==
    /\ pc = "opportunities"
    /\ i < cfg.opportunities
    /\ accounts # <<>>
    /\ \E d \in OpportunityDraws(now) \cap OpportunityDraws(IF twin.on THEN twin.now ELSE now),
          account \in choice(accounts, draws.opp_account),
          owner \in Owners :
        LET k == SampleSize(d.num_products, products)
        IN  IF sample_raises(products, k)
            THEN /\ pc' = "raised"
                 /\ err' = [type |-> "ValueError", raised_in |-> pc]
                 /\ UNCHANGED <<i, nids, opportunities, line_items, twin>>
            ELSE /\ \E sel \in Samples(products, k) :
                      \E qs \in [1..(Len(sel) - 1) -> draws.share],
                         ids \in IdDraws(1 + Len(sel)) :
                      LET opp == Opportunity(generate_sf_id("006", ids[1]),
                                             account, owner, d, now)
                      IN  /\ opportunities' = Append(opportunities, opp)
                          /\ line_items' = line_items \o LineItems(ids, opp, sel, qs)
                          /\ twin' = IF twin.on
                                     THEN [twin EXCEPT !.opportunities = Append(@,
                                             Opportunity(generate_sf_id("006", ids[1]),
                                                         account, owner, d, twin.now))]
                                     ELSE twin
                          /\ nids' = nids + 1 + Len(sel)
                 /\ i' = i + 1
                 /\ UNCHANGED <<pc, err>>
    /\ UNCHANGED <<db, call, loader, dag, cfg, now, draws, bound, saved, users, accounts,
                   contacts, leads, campaigns, products, pricebook_entries,
                   campaign_members, tasks>>

\* random.choice(accounts) raises IndexError when accounts is empty
generate_opportunities_raises ==
    /\ pc = "opportunities"
    /\ i < cfg.opportunities
    /\ accounts = <<>>
    /\ pc' = "raised"
    /\ err' = [type |-> "IndexError", raised_in |-> pc]
    /\ UNCHANGED <<db, call, loader, dag, i, cfg, now, draws, nids, bound, saved, collections, twin>>

-----------------------------------------------------------------------------
(* generate_campaign_members *)

\* the n for which the float product n * 0.70 falls just below 7n / 10
Below70 ==
    {
     90, 170, 180, 330, 340, 350, 360, 650, 660, 670, 680, 690,
     700, 710, 720, 730, 1290, 1300, 1310, 1320, 1330, 1340, 1350, 1360,
     1370, 1380, 1390, 1400, 1410, 1420, 1430, 1440, 1450, 1460, 2570, 2580,
     2590, 2600, 2610, 2620, 2630, 2640, 2650, 2660, 2670, 2680, 2690, 2700,
     2710, 2720, 2730, 2740, 2750, 2760, 2770, 2780, 2790, 2800, 2810, 2820,
     2830, 2840, 2850, 2860, 2870, 2880, 2890, 2900, 2910, 2920
    }

\* int(n * 0.70), for 0 <= n <= 5000
Int70(n) == IF n \in Below70 THEN (7 * n) \div 10 - 1 ELSE (7 * n) \div 10

\* mutant: converted leads are left in the pool
UnconvertedLeadsAndConverted == leads

\* unconverted_leads = [l for l in leads if not l.IsConverted]
UnconvertedLeads == SelectSeq(leads, LAMBDA l : ~l.IsConverted)

\* base_members; scale_pct / 100 is the uniform(0.3, 0.7) draw
BaseMembers(campaign, scale_pct) ==
    IF campaign.Status = "Completed" THEN campaign.NumberSent
    ELSE (campaign.NumberSent * scale_pct) \div 100

\* num_members: "Adjust by type", capped by the pool
NumMembers(campaign, scale_pct) ==
    LET base == BaseMembers(campaign, scale_pct)
        pool == Len(contacts) + Len(UnconvertedLeads)
    IN  IF campaign.Type = "Email" THEN Min(base, pool)
        ELSE IF campaign.Type = "Webinar" THEN Min(base \div 2, pool)
        ELSE Min((3 * base) \div 10, pool)

\* "Split between contacts (70%) and leads (30%)"
NumMemberContacts(num_members) == Int70(num_members)

NumMemberLeads(num_members) == num_members - NumMemberContacts(num_members)

CampaignMember(id, campaign, lead_id, contact_id, modified_after) ==
    [Id |-> id, CampaignId |-> campaign.Id, LeadId |-> lead_id,
     ContactId |-> contact_id,
     CreatedDate |-> FormatDate(ParseDate(campaign.CreatedDate)),
     LastModifiedDate |-> FormatDate(ParseDate(campaign.CreatedDate) + modified_after)]

\* "This is a contact, not a lead"
ContactMember(id, campaign, contact, modified_after) ==
    CampaignMember(id, campaign, None, contact.Id, modified_after)

\* mutant: a lead's member names the lead as its contact too
LeadMemberAsContact(id, campaign, lead, modified_after) ==
    CampaignMember(id, campaign, lead.Id, lead.Id, modified_after)

\* "This is a lead, not a contact"
LeadMember(id, campaign, lead, modified_after) ==
    CampaignMember(id, campaign, lead.Id, None, modified_after)

\* one iteration of "for campaign in campaigns": the campaign's members
generate_campaign_members ==
    /\ pc = "campaign_members"
    /\ i < Len(campaigns)
    /\ LET campaign == campaigns[i + 1]
       IN  \E scale_pct \in randint(30, 70, draws.member_scale) :
           LET num_members == NumMembers(campaign, scale_pct)
               nc == SampleSize(NumMemberContacts(num_members), contacts)
               nl == SampleSize(NumMemberLeads(num_members), UnconvertedLeads)
           IN  IF sample_raises(contacts, nc) \/ sample_raises(UnconvertedLeads, nl)
               THEN /\ pc' = "raised"
                    /\ err' = [type |-> "ValueError", raised_in |-> pc]
                    /\ UNCHANGED <<i, nids, campaign_members>>
               ELSE /\ \E selected_contacts \in Samples(contacts, nc),
                          selected_leads \in Samples(UnconvertedLeads, nl),
                          ms \in [1..(nc + nl) -> randint(0, 7, draws.member_modified)],
                          ids \in IdDraws(nc + nl) :
                        /\ campaign_members' = campaign_members
                              \o [j \in 1..nc |->
                                    ContactMember(generate_sf_id("00v", ids[j]), campaign,
                                                  contacts[selected_contacts[j]], ms[j])]
                              \o [j \in 1..nl |->
                                    LeadMember(generate_sf_id("00v", ids[nc + j]), campaign,
                                               UnconvertedLeads[selected_leads[j]],
                                               ms[nc + j])]
                        /\ nids' = nids + nc + nl
                    /\ i' = i + 1
                    /\ UNCHANGED <<pc, err>>
    /\ UNCHANGED <<db, call, loader, dag, cfg, now, draws, bound, saved, users, accounts,
                   contacts, leads, campaigns, products, pricebook_entries,
                   opportunities, line_items, tasks, twin>>

-----------------------------------------------------------------------------
(* generate_activities *)

\* contacts_by_account[account.Id]
ContactsOf(account) == SelectSeq(contacts, LAMBDA c : c.AccountId = account.Id)

\* opps_by_account[account.Id]
OpportunitiesOf(account) ==
    SelectSeq(opportunities, LAMBDA o : o.AccountId = account.Id)

\* [a for a in accounts if a.Id in opps_by_account]
AccountsWithOpportunities ==
    SelectSeq(accounts, LAMBDA a : OpportunitiesOf(a) # <<>>)

\* the list random.choice(...) picks the task's account from; with_opps is
\* random.random() < 0.7
TaskAccounts(with_opps) ==
    IF with_opps /\ opportunities # <<>> THEN AccountsWithOpportunities
    ELSE accounts

\* contact.Id if contact else None
TaskContacts(account) ==
    IF ContactsOf(account) # <<>>
    THEN {c.Id : c \in choice(ContactsOf(account), draws.task_contact)}
    ELSE {None}

\* mutant: the date is anywhere in the date range, opportunities or not
ActivityDatesAnywhere(account) ==
    random_date(START_DATE, END_DATE, draws.activity_date)

\* activity_date: near the creation of one of the account's opportunities, or
\* anywhere in the date range
ActivityDates(account) ==
    IF OpportunitiesOf(account) # <<>>
    THEN {ParseDate(opp.CreatedDate) + k :
            opp \in choice(OpportunitiesOf(account), draws.task_opp),
            k \in randint(-30, 90, draws.activity_offset)}
    ELSE random_date(START_DATE, END_DATE, draws.activity_date)

Task(id, who_id, account, owner, activity_date) ==
    [Id |-> id, WhoId |-> who_id, WhatId |-> account.Id, OwnerId |-> owner.Id,
     ActivityDate |-> FormatDate(activity_date),
     CreatedDate |-> FormatDate(activity_date)]

\* one iteration of "for i in range(NUM_ACTIVITIES)"
generate_activities ==
    /\ pc = "activities"
    /\ i < cfg.activities
    /\ \E with_opps \in draws.with_opps :
        /\ TaskAccounts(with_opps) # <<>>
        /\ \E account \in choice(TaskAccounts(with_opps), draws.task_account),
              owner \in Owners,
              ids \in IdDraws(1) :
            \E who_id \in TaskContacts(account),
               activity_date \in ActivityDates(account) :
                /\ tasks' = Append(tasks,
                      Task(generate_sf_id("00T", ids[1]), who_id, account, owner,
                           activity_date))
                /\ nids' = nids + 1
    /\ i' = i + 1
    /\ UNCHANGED <<db, call, loader, dag, pc, cfg, now, draws, bound, saved, err, users, accounts,
                   contacts, leads, campaigns, products, pricebook_entries,
                   opportunities, line_items, campaign_members, twin>>

\* random.choice raises IndexError when the list of accounts is empty
generate_activities_raises ==
    /\ pc = "activities"
    /\ i < cfg.activities
    /\ \E with_opps \in draws.with_opps : TaskAccounts(with_opps) = <<>>
    /\ pc' = "raised"
    /\ err' = [type |-> "IndexError", raised_in |-> pc]
    /\ UNCHANGED <<db, call, loader, dag, i, cfg, now, draws, nids, bound, saved, collections, twin>>

-----------------------------------------------------------------------------
(* main *)

\* whether generator g's loops have run to their end
LoopDone(g) ==
    CASE g = "users"            -> users # <<>> /\ ~(i < cfg.users - 1)
      [] g = "accounts"         -> ~(i < cfg.accounts)
      [] g = "contacts"         -> ~(i < Len(accounts))
      [] g = "leads"            -> ~(i < cfg.leads)
      [] g = "campaigns"        -> /\ i >= NumParentCampaigns
                                   /\ ~(i - NumParentCampaigns
                                          < cfg.campaigns - NumParentCampaigns)
      [] g = "products"         -> ~(i < Len(BasePrices))
      [] g = "opportunities"    -> ~(i < cfg.opportunities)
      [] g = "campaign_members" -> ~(i < Len(campaigns))
      [] g = "activities"       -> ~(i < cfg.activities)

\* the generator returns, main assigns what it returned and save_to_json
\* writes the files of the collections
save_to_json ==
    /\ pc \in Generators
    /\ LoopDone(pc)
    /\ bound' = bound \cup Returns(pc)
    /\ saved' = saved \cup Files(pc)
    /\ pc' = After(pc)
    /\ i' = 0
    /\ UNCHANGED <<db, call, loader, dag, cfg, now, draws, nids, err, collections, twin>>

-----------------------------------------------------------------------------
(* PostgresLoader.load_json_file *)

\* before the loader has run: no file, an empty table
NoDb == [file |-> <<>>, rows |-> <<>>, first |-> <<>>, loads |-> 0, clock |-> 0]

\* execute_values(..., page_size=1000)
page_size == 1000

\* "Handle NULL values properly": '' and 'null' are stored as NULL
NullIfBlank(value) == IF value = "" \/ value = "null" THEN None ELSE value

\* the tuple of values of one record, by the field mapping (column id from
\* field Id, column status from field Status) with the record as raw_data,
\* as the row it makes in the table at time t (loaded_at)
Row(record, t) ==
    [id |-> NullIfBlank(record.Id), status |-> NullIfBlank(record.Status),
     raw_data |-> record, loaded_at |-> t]

\* the pages execute_values sends, one INSERT statement each: the positions
\* of the records in each page
Pages(records) ==
    {{k \in DOMAIN records : (k - 1) \div page_size = p} :
        p \in 0..((Len(records) - 1) \div page_size)}

\* an INSERT ... ON CONFLICT DO UPDATE statement that proposes two rows with
\* the same id fails ("cannot affect row a second time")
cardinality_violation(records) ==
    \E page \in Pages(records) :
        \E j, k \in page : j # k /\ records[j].Id = records[k].Id

\* mutant: a plain INSERT into a table without the primary key on id
InsertOnly(rows, row) == Append(rows, row)

\* INSERT ... ON CONFLICT (id) DO UPDATE SET <every column>, loaded_at
Upsert(rows, row) ==
    IF \E k \in DOMAIN rows : rows[k].id = row.id
    THEN [k \in DOMAIN rows |-> IF rows[k].id = row.id THEN row ELSE rows[k]]
    ELSE Append(rows, row)

\* the table after the rows of records[1..n] were upserted in order at time t
RECURSIVE UpsertAll(_, _, _, _)
UpsertAll(rows, records, n, t) ==
    IF n = 0 THEN rows
    ELSE Upsert(UpsertAll(rows, records, n - 1, t), Row(records[n], t))

\* the largest number of loads of the file and of records in it explored
MaxLoads == 2

MaxFileRecords == 2

\* one load of the file: nothing to do for a file without records, else every
\* page is upserted and the transaction committed
load_json_file ==
    /\ pc = "load_json_file"
    /\ db.loads < MaxLoads
    /\ ~cardinality_violation(db.file)
    /\ LET t    == db.clock + 1
           rows == IF db.file = <<>> THEN db.rows
                   ELSE UpsertAll(db.rows, db.file, Len(db.file), t)
       IN  db' = [db EXCEPT !.rows = rows, !.loads = @ + 1, !.clock = t,
                            !.first = IF db.loads = 0 THEN rows ELSE @]
    /\ UNCHANGED <<pc, i, cfg, now, draws, nids, bound, saved, err, collections, twin,
                   call, loader, dag>>

\* a page with two records of the same Id: the statement fails, nothing is
\* committed and the exception leaves load_json_file
load_json_file_raises ==
    /\ pc = "load_json_file"
    /\ db.loads < MaxLoads
    /\ cardinality_violation(db.file)
    /\ pc' = "raised"
    /\ err' = [type |-> "CardinalityViolation", raised_in |-> pc]
    /\ UNCHANGED <<i, cfg, now, draws, nids, bound, saved, collections, twin, db,
                   call, loader, dag>>

-----------------------------------------------------------------------------
(* load_all_data and the loader's main.  A file of the data directory is
   missing, or holds count records of which the database rejects record bad
   (none when bad = 0); loader.tables[f] is the number of rows of file f that
   are committed, loader.tx the number of rows of the file at loader.at
   written in the transaction that is open *)

\* the last record of page p (from 0) of a file of n records
LastOfPage(n, p) == Min(n, (p + 1) * page_size)

\* the page being sent: the pages before it made loader.tx rows
NextPage == loader.tx \div page_size

\* the INSERT statement of page p of file f fails: a row of it is rejected
PageRejected(f, p) ==
    f.bad >= p * page_size + 1 /\ f.bad <= LastOfPage(f.count, p)

\* mutant: every statement is committed as it is executed
ExecuteAutocommit(l, n) == [l EXCEPT !.tx = n, !.tables[l.at] = n]

\* cursor.execute of one page: n rows of the file are written, uncommitted
Execute(l, n) == [l EXCEPT !.tx = n]

\* self.conn.commit(): what the transaction wrote becomes visible
Commit(l) == [l EXCEPT !.tables[l.at] = l.tx, !.tx = 0]

\* one turn of "for filename, config in mappings.items()" up to the call of
\* execute_values: a file that is missing is skipped, one without records
\* returns from load_json_file at once
load_all_data ==
    /\ pc = "load_all_data"
    /\ loader.at <= Len(loader.files)
    /\ LET f == loader.files[loader.at]
       IN  IF f.kind = "missing" \/ f.count = 0
           THEN loader' = [loader EXCEPT !.at = @ + 1] /\ pc' = pc
           ELSE loader' = loader /\ pc' = "execute_values"
    /\ UNCHANGED <<db, call, dag, i, cfg, now, draws, nids, bound, saved, err,
                   collections, twin>>

\* execute_values sends the next page and the database accepts it
execute_values ==
    /\ pc = "execute_values"
    /\ loader.tx < loader.files[loader.at].count
    /\ ~PageRejected(loader.files[loader.at], NextPage)
    /\ loader' = Execute(loader, LastOfPage(loader.files[loader.at].count, NextPage))
    /\ UNCHANGED <<db, call, dag, pc, i, cfg, now, draws, nids, bound, saved, err,
                   collections, twin>>

\* execute_values sends the next page and the database rejects it: the
\* exception leaves load_json_file and load_all_data
execute_values_raises ==
    /\ pc = "execute_values"
    /\ loader.tx < loader.files[loader.at].count
    /\ PageRejected(loader.files[loader.at], NextPage)
    /\ pc' = "raised"
    /\ err' = [type |-> "psycopg2.Error", raised_in |-> pc]
    /\ UNCHANGED <<db, call, loader, dag, i, cfg, now, draws, nids, bound, saved,
                   collections, twin>>

\* every page was sent: load_json_file commits and returns
commit ==
    /\ pc = "execute_values"
    /\ loader.tx = loader.files[loader.at].count
    /\ loader' = [Commit(loader) EXCEPT !.at = @ + 1]
    /\ pc' = "load_all_data"
    /\ UNCHANGED <<db, call, dag, i, cfg, now, draws, nids, bound, saved, err,
                   collections, twin>>

\* main's finally: loader.close().  Closing the connection rolls back the
\* transaction that is open; main returns, or the exception goes on
close ==
    /\ loader.conn = "open"
    /\ \/ pc = "load_all_data" /\ loader.at > Len(loader.files)
       \/ pc = "raised"
    /\ loader' = [loader EXCEPT !.conn = "closed", !.tx = 0]
    /\ pc' = IF pc = "raised" THEN pc ELSE "done"
    /\ UNCHANGED <<db, call, dag, i, cfg, now, draws, nids, bound, saved, err,
                   collections, twin>>

-----------------------------------------------------------------------------
(* The salesforce_pipeline DAG.  A task instance has no state ("none") until
   the scheduler finds its upstream tasks successful (the default trigger
   rule, all_success) and runs it; a try that fails leaves it "up_for_retry"
   while tries remain and "failed" after the last; a task with a failed
   upstream becomes "upstream_failed" *)

\* the task_id of the seven operators, in the order of their definition
TASKS ==
    <<"generate_mock_salesforce_data", "load_data_to_postgres", "dbt_run_staging",
      "dbt_run_intermediate", "dbt_run_marts", "dbt_test_all", "dbt_docs_generate">>

\* default_args["retries"]
retries == 2

\* mutant: every task after the first depends on the first only
UpstreamOfFirstOnly(t) == IF t = 1 THEN {} ELSE {1}

\* generate_data >> load_to_postgres >> ... >> dbt_docs_generate: the tasks
\* directly upstream of task t
Upstream(t) == IF t = 1 THEN {} ELSE {t - 1}

\* the scheduler starts a try of task t
task_runs ==
    /\ pc = "dag_run"
    /\ \E t \in DOMAIN TASKS :
        /\ dag.state[t] \in {"none", "up_for_retry"}
        /\ \A u \in Upstream(t) : dag.state[u] = "success"
        /\ dag' = [dag EXCEPT !.state[t] = "running", !.try_number[t] = @ + 1]
    /\ UNCHANGED <<db, call, loader, pc, i, cfg, now, draws, nids, bound, saved,
                   err, collections, twin>>

\* the command of task t exits with 0
task_succeeds ==
    /\ pc = "dag_run"
    /\ \E t \in DOMAIN TASKS :
        /\ dag.state[t] = "running"
        /\ dag' = [dag EXCEPT !.state[t] = "success"]
    /\ UNCHANGED <<db, call, loader, pc, i, cfg, now, draws, nids, bound, saved,
                   err, collections, twin>>

\* the command of task t fails: another try while try_number <= retries
task_fails ==
    /\ pc = "dag_run"
    /\ \E t \in DOMAIN TASKS :
        /\ dag.state[t] = "running"
        /\ dag' = [dag EXCEPT !.state[t] =
                      IF dag.try_number[t] <= retries THEN "up_for_retry"
                      ELSE "failed"]
    /\ UNCHANGED <<db, call, loader, pc, i, cfg, now, draws, nids, bound, saved,
                   err, collections, twin>>

\* a task with a failed upstream is never started
task_upstream_failed ==
    /\ pc = "dag_run"
    /\ \E t \in DOMAIN TASKS :
        /\ dag.state[t] = "none"
        /\ \E u \in Upstream(t) : dag.state[u] \in {"failed", "upstream_failed"}
        /\ dag' = [dag EXCEPT !.state[t] = "upstream_failed"]
    /\ UNCHANGED <<db, call, loader, pc, i, cfg, now, draws, nids, bound, saved,
                   err, collections, twin>>

-----------------------------------------------------------------------------
(* The runs explored *)

\* the largest NUM_USERS, NUM_ACCOUNTS, ... explored
MaxUsers == 2

MaxAccounts == 1

MaxLeads == 1

MaxCampaigns == 2

MaxOpportunities == 1

MaxActivities == 1

Configs ==
    [users : 0..MaxUsers, accounts : 0..MaxAccounts, leads : 0..MaxLeads,
     campaigns : 0..MaxCampaigns, opportunities : 0..MaxOpportunities,
     activities : 0..MaxActivities]

\* the day of a run: datetime(2026, 11, 2)
Today == ToOrdinal(2026, 11, 2)

NoTwin == [on |-> FALSE, now |-> 0, campaigns |-> <<>>, opportunities |-> <<>>]

\* the state when main is entered, for the configurations, the run times and
\* the samples of the random variates given
InitWith(configs, nows, samples, twins) ==
    /\ pc = "users"
    /\ i = 0
    /\ cfg \in configs
    /\ now \in nows
    /\ draws = samples
    /\ nids = 0
    /\ bound = {}
    /\ saved = {}
    /\ err = NoError
    /\ users = <<>>
    /\ accounts = <<>>
    /\ contacts = <<>>
    /\ leads = <<>>
    /\ campaigns = <<>>
    /\ products = <<>>
    /\ pricebook_entries = <<>>
    /\ opportunities = <<>>
    /\ line_items = <<>>
    /\ campaign_members = <<>>
    /\ tasks = <<>>
    /\ twin \in twins
    /\ db = NoDb
    /\ call = NoCall
    /\ loader = NoLoader
    /\ dag = NoDag

\* one value per numeric variate, every outcome of the choices among records
MainDraws ==
    [idspace |-> 0, idfresh |-> {}, sample |-> "run", sample_start |-> {0},
     active |-> BOOLEAN, owner |-> {1},
     acct_lognorm |-> {250}, acct_created |-> {100}, acct_modified |-> {5},
     num_contacts |-> {2},
     lead_created |-> {200}, is_converted |-> BOOLEAN, converted_after |-> {30},
     has_opportunity |-> {TRUE}, lead_status |-> {1}, lead_lognorm |-> {40},
     lead_modified |-> {3},
     campaign_created |-> {300}, start_after |-> {10}, duration |-> {60},
     ended_status |-> {"Completed"}, campaign_type |-> {1},
     budgeted_cost |-> {20000}, cost_pct |-> {100}, number_sent |-> {100},
     campaign_modified |-> {2}, has_parent |-> BOOLEAN, parent |-> {0},
     opp_account |-> {0}, opp_created |-> {400}, base_amount |-> {800000}, closed |-> {TRUE},
     stage |-> {6}, downgrade |-> {FALSE}, close_after |-> {30},
     close_offset |-> {0}, quarter_end |-> {FALSE}, quarter_end_day |-> {20},
     opp_modified |-> {1}, num_products |-> {2}, share |-> {2},
     member_scale |-> {50}, member_modified |-> {0},
     with_opps |-> BOOLEAN, task_account |-> {0}, task_contact |-> {1},
     task_opp |-> {0}, activity_offset |-> {0}, activity_date |-> {10}]

Init == InitWith(Configs, {Today}, MainDraws, {NoTwin})

Next ==
    \/ generate_users_manager
    \/ generate_users_rep
    \/ generate_accounts
    \/ generate_contacts
    \/ generate_leads
    \/ generate_campaigns_parent
    \/ generate_campaigns_child
    \/ generate_products
    \/ generate_opportunities
    \/ generate_opportunities_raises
    \/ generate_campaign_members
    \/ generate_activities
    \/ generate_activities_raises
    \/ save_to_json

\* main, from its entry to its return or to the exception that leaves it
Spec == Init /\ [][Next]_vars

-----------------------------------------------------------------------------
(* Runs of main up to one generator, over more outcomes of its draws *)

\* a configuration with the counts given and every other count 0
Counts(users_, accounts_, leads_, campaigns_, opportunities_) ==
    [users : users_, accounts : accounts_, leads : leads_,
     campaigns : campaigns_, opportunities : opportunities_, activities : {0}]

\* the largest NUM_USERS explored for generate_users alone
MaxTeam == 3

\* identifiers drawn from two suffixes only, so that allocations collide
UsersDraws == [MainDraws EXCEPT !.idspace = 2]

InitUsers ==
    InitWith(Counts(0..MaxTeam, {0}, {0}, {0}, {0}), {Today}, UsersDraws, {NoTwin})

NextUsers ==
    \/ generate_users_manager
    \/ generate_users_rep
    \/ save_to_json

\* main up to the return of generate_users
SpecUsers == InitUsers /\ [][NextUsers]_vars

\* the largest NUM_ACCOUNTS explored for generate_contacts
MaxContactAccounts == 2

\* employee counts on both sides of every step of NumberOfEmployees // 100
\* between 1 and 5, and every outcome of randint(1, 5)
ContactsDraws ==
    [MainDraws EXCEPT !.acct_lognorm = {5, 150, 250, 480, 700, 200000},
                      !.num_contacts = 1..5]

InitContacts ==
    InitWith(Counts({1}, 0..MaxContactAccounts, {0}, {0}, {0}), {Today},
             ContactsDraws, {NoTwin})

NextContacts ==
    \/ generate_users_manager
    \/ generate_accounts
    \/ generate_contacts
    \/ save_to_json

\* main up to the return of generate_contacts
SpecContacts == InitContacts /\ [][NextContacts]_vars

\* the largest NUM_LEADS explored for generate_leads
MaxLeadBatch == 2

LeadsDraws ==
    [MainDraws EXCEPT !.lead_created = {200, 500}, !.has_opportunity = BOOLEAN,
                      !.converted_after = {7, 90}, !.lead_status = 1..4]

InitLeads ==
    InitWith(Counts({1}, {0}, 0..MaxLeadBatch, {0}, {0}), {Today}, LeadsDraws,
             {NoTwin})

NextLeads ==
    \/ generate_users_manager
    \/ generate_leads
    \/ save_to_json

\* main up to the return of generate_leads
SpecLeads == InitLeads /\ [][NextLeads]_vars

NextOpportunities ==
    \/ generate_users_manager
    \/ generate_accounts
    \/ generate_contacts
    \/ generate_campaigns_parent
    \/ generate_products
    \/ generate_opportunities
    \/ save_to_json

\* the largest NUM_OPPORTUNITIES explored for the stage of an opportunity
MaxStagedOpportunities == 1

\* an old, a medium-age and a new deal; a deal under and a deal over $100k;
\* every stage, both outcomes of the "are closed" and of the downgrade draw
StageDraws ==
    [MainDraws EXCEPT !.opp_created = {100, 600, 700},
                      !.base_amount = {800000, 20000000},
                      !.closed = BOOLEAN, !.stage = 1..7, !.downgrade = BOOLEAN,
                      !.close_after = {30, 180}, !.opp_modified = {1, 60}]

InitStage ==
    InitWith(Counts({1}, {1}, {0}, {0}, 0..MaxStagedOpportunities), {Today},
             StageDraws, {NoTwin})

\* main up to the return of generate_opportunities, for the stages
SpecStage == InitStage /\ [][NextOpportunities]_vars

\* the largest NUM_OPPORTUNITIES explored for the close dates
MaxDatedOpportunities == 1

\* open deals, generated early in a quarter's second month or late in a
\* quarter's last month, closing from 0 to 180 days later, moved to the
\* quarter end or not
CloseDateDraws ==
    [MainDraws EXCEPT !.closed = {FALSE}, !.stage = {3},
                      !.close_offset = {0, 30, 60, 100, 140, 170, 180},
                      !.quarter_end = BOOLEAN, !.quarter_end_day = {20, 28, 31},
                      !.opp_modified = {1, 60}]

InitCloseDate ==
    InitWith(Counts({1}, {1}, {0}, {0}, 0..MaxDatedOpportunities),
             {Today, ToOrdinal(2026, 12, 28)}, CloseDateDraws, {NoTwin})

\* main up to the return of generate_opportunities, for the close dates
SpecCloseDate == InitCloseDate /\ [][NextOpportunities]_vars

\* the largest NUM_OPPORTUNITIES explored for the line items of an opportunity
MaxItemizedOpportunities == 1

\* amounts from the $1k floor to the $500k ceiling, one to three products
\* starting at several places of the catalogue, shares of 1/2 and of 1/5
LineItemDraws ==
    [MainDraws EXCEPT !.base_amount = {50000, 800000, 3000000, 60000000},
                      !.num_products = 1..3, !.share = {2, 5},
                      !.sample_start = {0, 2, 7}]

InitLineItems ==
    InitWith(Counts({1}, {1}, {0}, {0}, 0..MaxItemizedOpportunities), {Today},
             LineItemDraws, {NoTwin})

\* main up to the return of generate_opportunities, for the line items
SpecLineItems == InitLineItems /\ [][NextOpportunities]_vars

\* the largest NUM_LEADS and NUM_CAMPAIGNS explored for the campaign members
MaxMemberLeads == 2

MaxMemberCampaigns == 2

\* accounts with one or three contacts, leads converted or not, campaigns by
\* email or by mail that completed or were aborted, every sample of the pools
MembersDraws ==
    [MainDraws EXCEPT !.sample = "any", !.active = {TRUE}, !.num_contacts = {1, 3},
                      !.ended_status = {"Completed", "Aborted"},
                      !.campaign_type = {1, 5}, !.number_sent = {100},
                      !.member_scale = {30}, !.has_parent = {FALSE}]

InitMembers ==
    InitWith(Counts({1}, 0..1, 0..MaxMemberLeads, 0..MaxMemberCampaigns, {0}),
             {Today}, MembersDraws, {NoTwin})

NextMembers ==
    \/ generate_users_manager
    \/ generate_accounts
    \/ generate_contacts
    \/ generate_leads
    \/ generate_campaigns_parent
    \/ generate_campaigns_child
    \/ generate_products
    \/ generate_campaign_members
    \/ save_to_json

\* main up to the return of generate_campaign_members
SpecMembers == InitMembers /\ [][NextMembers]_vars

\* a second run of the same seed and configuration, started on another day
Twins ==
    {[on |-> TRUE, now |-> t, campaigns |-> <<>>, opportunities |-> <<>>] :
        t \in {ToOrdinal(2024, 6, 1)}}

\* campaigns that end and deals that stay open between the days of the two runs
TwinDraws ==
    [MainDraws EXCEPT !.campaign_created = {600}, !.closed = BOOLEAN,
                      !.stage = {3, 6}]

InitTwin == InitWith(Configs, {Today}, TwinDraws, Twins)

\* main, together with the second run making the same draws
SpecTwin == InitTwin /\ [][Next]_vars

\* the largest NUM_ACCOUNTS and NUM_LEADS explored for the employee counts
MaxSizedAccounts == 1

MaxSizedLeads == 1

\* the whole part of log-normal draws from 0 to far beyond each cap, with
\* the values next to the floor of 10 and next to the caps
SizesDraws ==
    [MainDraws EXCEPT
        !.acct_lognorm = {0, 9, 10, 11, 250, 5000, 99999, 100000, 100001, 3000000},
        !.lead_lognorm = {0, 9, 40, 700, 49999, 50000, 50001, 3000000},
        !.num_contacts = {1}]

InitSizes ==
    InitWith(Counts({1}, 0..MaxSizedAccounts, 0..MaxSizedLeads, {0}, {0}), {Today},
             SizesDraws, {NoTwin})

NextSizes ==
    \/ generate_users_manager
    \/ generate_accounts
    \/ generate_contacts
    \/ generate_leads
    \/ save_to_json

\* main up to the return of generate_leads, for the employee counts
SpecSizes == InitSizes /\ [][NextSizes]_vars

\* the records of the JSON files explored: two Ids, a status that is set,
\* empty or 'null'
FileRecords == [Id : {"00v1", "00v2"}, Status : {"Sent", "Responded", "", "null"}]

JsonFiles == UNION {[1..n -> FileRecords] : n \in 0..MaxFileRecords}

\* the loader is given a file, the target table is empty
InitLoader ==
    /\ pc = "load_json_file"
    /\ i = 0
    /\ cfg \in Counts({0}, {0}, {0}, {0}, {0})
    /\ now = Today
    /\ draws = MainDraws
    /\ nids = 0
    /\ bound = {}
    /\ saved = {}
    /\ err = NoError
    /\ users = <<>>
    /\ accounts = <<>>
    /\ contacts = <<>>
    /\ leads = <<>>
    /\ campaigns = <<>>
    /\ products = <<>>
    /\ pricebook_entries = <<>>
    /\ opportunities = <<>>
    /\ line_items = <<>>
    /\ campaign_members = <<>>
    /\ tasks = <<>>
    /\ twin = NoTwin
    /\ \E f \in JsonFiles : db = [NoDb EXCEPT !.file = f]
    /\ call = NoCall
    /\ loader = NoLoader
    /\ dag = NoDag

NextLoader ==
    \/ load_json_file
    \/ load_json_file_raises

\* loads of one file into one table, one after the other
SpecLoader == InitLoader /\ [][NextLoader]_vars

\* the largest NUM_CAMPAIGNS explored for the status and cost of a campaign
MaxStatusCampaigns == 3

\* a run on 2024-06-01, inside the range the campaign dates are drawn from
MidRange == ToOrdinal(2024, 6, 1)

\* creation days that, on 2024-06-01, give campaigns of either pass that ended,
\* end or start on that very day, are running or have yet to start
StatusDraws ==
    [MainDraws EXCEPT !.campaign_created = {300, 447, 507, 627, 687, 700},
                      !.ended_status = {"Completed", "Aborted"},
                      !.has_parent = {FALSE}]

InitStatus ==
    InitWith(Counts({1}, {0}, {0}, 0..MaxStatusCampaigns, {0}), {MidRange, Today},
             StatusDraws, {NoTwin})

NextStatus ==
    \/ generate_users_manager
    \/ generate_campaigns_parent
    \/ generate_campaigns_child
    \/ save_to_json

\* main up to the return of generate_campaigns
SpecStatus == InitStatus /\ [][NextStatus]_vars

\* the largest NUM_CAMPAIGNS explored for the hierarchy of the campaigns
MaxTreeCampaigns == 3

\* identifiers drawn from two suffixes only, and both kinds of child
TreeDraws ==
    [MainDraws EXCEPT !.idspace = 2, !.has_parent = BOOLEAN, !.parent = {0, 1}]

InitTree ==
    InitWith(Counts({1}, {0}, {0}, 0..MaxTreeCampaigns, {0}), {Today}, TreeDraws,
             {NoTwin})

\* main up to the return of generate_campaigns, identifiers colliding
SpecTree == InitTree /\ [][NextStatus]_vars

\* the largest NUM_OPPORTUNITIES explored for the age of an opportunity
MaxAgedOpportunities == 2

\* deals created 645, 181, 180, 91, 90 and 89 days before END_DATE; an open
\* stage every age can draw and a closed one; both "are closed" outcomes
AgeDraws ==
    [MainDraws EXCEPT !.opp_created = {100, 564, 565, 654, 655, 656},
                      !.closed = BOOLEAN, !.stage = {3, 6}]

InitAge ==
    InitWith(Counts({1}, {1}, {0}, {0}, 0..MaxAgedOpportunities), {Today},
             AgeDraws, {NoTwin})

\* main up to the return of generate_opportunities, for the age tiers
SpecAge == InitAge /\ [][NextOpportunities]_vars

\* the days a call of random_date is given as start and as end
SpanDays == {START_DATE + k : k \in 0..MaxSpan}

\* random_date is called with a start and an end in either order
InitSampler ==
    /\ pc = "random_date"
    /\ i = 0
    /\ cfg \in Counts({0}, {0}, {0}, {0}, {0})
    /\ now = Today
    /\ draws = MainDraws
    /\ nids = 0
    /\ bound = {}
    /\ saved = {}
    /\ err = NoError
    /\ users = <<>>
    /\ accounts = <<>>
    /\ contacts = <<>>
    /\ leads = <<>>
    /\ campaigns = <<>>
    /\ products = <<>>
    /\ pricebook_entries = <<>>
    /\ opportunities = <<>>
    /\ line_items = <<>>
    /\ campaign_members = <<>>
    /\ tasks = <<>>
    /\ twin = NoTwin
    /\ db = NoDb
    /\ loader = NoLoader
    /\ dag = NoDag
    /\ \E start \in SpanDays, end \in SpanDays :
          call = [start |-> start, end |-> end, returned |-> <<>>]

NextSampler ==
    \/ call_random_date
    \/ call_random_date_raises

\* one call of random_date
SpecSampler == InitSampler /\ [][NextSampler]_vars

\* the largest NUM_LEADS explored for the leads a campaign can take
MaxPoolLeads == 2

\* the identifiers of the leads drawn from two suffixes only; leads converted
\* or not; completed email campaigns that take the whole pool
PoolDraws ==
    [MainDraws EXCEPT !.idspace = 2,
                      !.idfresh = {"users", "accounts", "contacts", "campaigns",
                                   "products", "campaign_members"},
                      !.sample = "any", !.active = {TRUE},
                      !.num_contacts = {1}, !.has_opportunity = {FALSE},
                      !.has_parent = {FALSE}]

InitPool ==
    InitWith(Counts({1}, 0..1, 0..MaxPoolLeads, 0..2, {0}), {Today}, PoolDraws,
             {NoTwin})

\* main up to the return of generate_campaign_members, identifiers colliding
SpecPool == InitPool /\ [][NextMembers]_vars

\* the largest NUM_ACCOUNTS and NUM_ACTIVITIES explored for the date of a task
MaxTaskAccounts == 2

MaxTaskBatch == 2

\* tasks of either account, with or without an opportunity, at both ends and
\* inside of the range their date is drawn from
TasksDraws ==
    [MainDraws EXCEPT !.opp_account = {0, 1}, !.task_account = {0, 1},
                      !.num_contacts = {1}, !.has_parent = {FALSE},
                      !.activity_offset = {-30, 0, 90},
                      !.activity_date = {0, 10, 745}]

InitTasks ==
    InitWith([users : {1}, accounts : 1..MaxTaskAccounts, leads : {0},
              campaigns : {0}, opportunities : 0..1,
              activities : 0..MaxTaskBatch],
             {Today}, TasksDraws, {NoTwin})

NextTasks ==
    \/ generate_users_manager
    \/ generate_accounts
    \/ generate_contacts
    \/ generate_campaigns_parent
    \/ generate_products
    \/ generate_opportunities
    \/ generate_campaign_members
    \/ generate_activities
    \/ save_to_json

\* main with accounts, for the dates of the tasks
SpecTasks == InitTasks /\ [][NextTasks]_vars

\* the largest NUM_CAMPAIGNS explored for the two timestamps of a record
MaxStampedCampaigns == 2

\* the smallest and the largest number of days between the creation and the
\* modification of a record of each kind; accounts, leads and opportunities
\* created on the last day of their range
StampsDraws ==
    [MainDraws EXCEPT !.acct_created = {745}, !.acct_modified = {0, 30},
                      !.lead_created = {745}, !.lead_modified = {1, 30},
                      !.campaign_modified = {1, 30},
                      !.opp_created = {715}, !.opp_modified = {1, 60},
                      !.stage = {3}, !.member_modified = {0, 7},
                      !.num_contacts = {1}, !.has_parent = {FALSE},
                      !.is_converted = {FALSE}]

InitStamps ==
    InitWith(Counts({1}, {1}, 0..1, 0..MaxStampedCampaigns, 0..1), {Today},
             StampsDraws, {NoTwin})

NextStamps ==
    \/ generate_users_manager
    \/ generate_accounts
    \/ generate_contacts
    \/ generate_leads
    \/ generate_campaigns_parent
    \/ generate_campaigns_child
    \/ generate_products
    \/ generate_opportunities
    \/ generate_campaign_members
    \/ save_to_json

\* main up to the return of generate_campaign_members, for the timestamps
SpecStamps == InitStamps /\ [][NextStamps]_vars

\* the largest number of entries of mappings explored
MaxMappings == 2

\* a missing file, and files of no record, of one record, of a page and a
\* record, of two pages and a record, without or with a record that is
\* rejected, in the first, the second or the third page
DataFiles ==
    {[kind |-> "missing", count |-> 0, bad |-> 0]}
        \cup {f \in [kind : {"file"},
                      count : {0, 1, page_size + 1, 2 * page_size + 1},
                      bad : {0, 1, page_size + 1, 2 * page_size + 1}] :
                f.bad <= f.count}

\* main has connected and created the tables, which are empty
InitLoadAll ==
    /\ pc = "load_all_data"
    /\ i = 0
    /\ cfg \in Counts({0}, {0}, {0}, {0}, {0})
    /\ now = Today
    /\ draws = MainDraws
    /\ nids = 0
    /\ bound = {}
    /\ saved = {}
    /\ err = NoError
    /\ users = <<>>
    /\ accounts = <<>>
    /\ contacts = <<>>
    /\ leads = <<>>
    /\ campaigns = <<>>
    /\ products = <<>>
    /\ pricebook_entries = <<>>
    /\ opportunities = <<>>
    /\ line_items = <<>>
    /\ campaign_members = <<>>
    /\ tasks = <<>>
    /\ twin = NoTwin
    /\ db = NoDb
    /\ call = NoCall
    /\ dag = NoDag
    /\ \E files \in [1..MaxMappings -> DataFiles] :
          loader = [files |-> files, at |-> 1, tx |-> 0,
                    tables |-> [f \in 1..MaxMappings |-> 0], conn |-> "open"]

NextLoadAll ==
    \/ load_all_data
    \/ execute_values
    \/ execute_values_raises
    \/ commit
    \/ close

\* the loader's main from the call of load_all_data on
SpecLoadAll == InitLoadAll /\ [][NextLoadAll]_vars

\* a DAG run is created: no task instance has a state
InitDag ==
    /\ pc = "dag_run"
    /\ i = 0
    /\ cfg \in Counts({0}, {0}, {0}, {0}, {0})
    /\ now = Today
    /\ draws = MainDraws
    /\ nids = 0
    /\ bound = {}
    /\ saved = {}
    /\ err = NoError
    /\ users = <<>>
    /\ accounts = <<>>
    /\ contacts = <<>>
    /\ leads = <<>>
    /\ campaigns = <<>>
    /\ products = <<>>
    /\ pricebook_entries = <<>>
    /\ opportunities = <<>>
    /\ line_items = <<>>
    /\ campaign_members = <<>>
    /\ tasks = <<>>
    /\ twin = NoTwin
    /\ db = NoDb
    /\ call = NoCall
    /\ loader = NoLoader
    /\ dag = [state |-> [t \in DOMAIN TASKS |-> "none"],
              try_number |-> [t \in DOMAIN TASKS |-> 0]]

NextDag ==
    \/ task_runs
    \/ task_succeeds
    \/ task_fails
    \/ task_upstream_failed

\* one run of the DAG
SpecDag == InitDag /\ [][NextDag]_vars

-----------------------------------------------------------------------------
(* Properties of a run of main *)

Ids(records) == {r.Id : r \in Range(records)}

\* every reference of the records is None, when optional, or in targets
RefersTo(records, Field(_), targets, optional) ==
    \A r \in Range(records) :
        (optional /\ Field(r) = None) \/ Field(r) \in Ids(targets)

OwnerIdOf(r) == r.OwnerId

\* C6: after a complete run of main every foreign key other than the converted
\* lead placeholders is the Id of a record of the collection it refers to
\* (ManagerId, ParentId, WhoId and a member's LeadId and ContactId may be None).
C6_ReferentialClosure ==
    pc = "done" =>
        /\ RefersTo(users, LAMBDA r : r.ManagerId, users, TRUE)
        /\ \A owned \in {accounts, contacts, leads, campaigns, opportunities, tasks} :
              RefersTo(owned, OwnerIdOf, users, FALSE)
        /\ RefersTo(contacts, LAMBDA r : r.AccountId, accounts, FALSE)
        /\ RefersTo(opportunities, LAMBDA r : r.AccountId, accounts, FALSE)
        /\ RefersTo(tasks, LAMBDA r : r.WhatId, accounts, FALSE)
        /\ RefersTo(tasks, LAMBDA r : r.WhoId, contacts, TRUE)
        /\ RefersTo(campaign_members, LAMBDA r : r.ContactId, contacts, TRUE)
        /\ RefersTo(campaign_members, LAMBDA r : r.LeadId, leads, TRUE)
        /\ RefersTo(campaign_members, LAMBDA r : r.CampaignId, campaigns, FALSE)
        /\ RefersTo(campaigns, LAMBDA r : r.ParentId, campaigns, TRUE)
        /\ RefersTo(pricebook_entries, LAMBDA r : r.Product2Id, products, FALSE)
        /\ RefersTo(line_items, LAMBDA r : r.Product2Id, products, FALSE)
        /\ RefersTo(line_items, LAMBDA r : r.OpportunityId, opportunities, FALSE)

\* a complete run in which every kind of reference occurs
C6_Witness ==
    /\ pc = "done"
    /\ \E u \in Range(users) : u.ManagerId # None
    /\ \E c \in Range(campaigns) : c.ParentId # None
    /\ \E m \in Range(campaign_members) : m.LeadId # None
    /\ \E m \in Range(campaign_members) : m.ContactId # None
    /\ \E t \in Range(tasks) : t.WhoId # None
    /\ line_items # <<>>

\* C8, as claimed: when a generator raises, no file has been written
C8_NothingPersisted == pc = "raised" => saved = {}

\* the files main has written when the generator g is running
FilesBefore(g) ==
    CASE g = "opportunities" ->
            {"users.json", "accounts.json", "contacts.json", "leads.json",
             "campaigns.json", "products.json", "pricebook_entries.json"}
      [] g = "activities" ->
            {"users.json", "accounts.json", "contacts.json", "leads.json",
             "campaigns.json", "products.json", "pricebook_entries.json",
             "opportunities.json", "opportunity_line_items.json",
             "campaign_members.json"}

\* C8, amended: when a generator raises, the exception leaves main as raised,
\* the files of the generators that returned before it are written, and
\* the files of the generator that raised and of those after it are not
C8_EarlierFilesPersisted ==
    pc = "raised" =>
        /\ err.type = "IndexError"
        /\ err.raised_in \in {"opportunities", "activities"}
        /\ saved = FilesBefore(err.raised_in)

\* generate_activities raises after everything else was written
C8_Witness == pc = "raised" /\ err.raised_in = "activities" /\ "users.json" \in saved

\* the collections the claim says are generated before generator g starts
GeneratedBefore(g) ==
    CASE g = "accounts"         -> {"users"}
      [] g = "leads"            -> {"users"}
      [] g = "campaigns"        -> {"users"}
      [] g = "contacts"         -> {"accounts"}
      [] g = "opportunities"    -> {"products", "pricebook_entries", "accounts", "users"}
      [] g = "campaign_members" -> {"campaigns", "leads", "contacts"}
      [] g = "activities"       -> {"accounts", "contacts", "opportunities", "users"}
      [] OTHER                  -> {}

\* C9: while a generator runs, every collection it depends on and every
\* collection it is passed has been returned by its generator
C9_DependencyOrder ==
    pc \in Generators => GeneratedBefore(pc) \cup Args(pc) \subseteq bound

\* generate_activities runs, on the four collections it is passed
C9_Witness ==
    /\ pc = "activities"
    /\ tasks # <<>>
    /\ {"accounts", "contacts", "opportunities", "users"} \subseteq bound

-----------------------------------------------------------------------------
(* Properties of generate_users *)

\* the positions of the users that report to nobody
RootUsers == {k \in DOMAIN users : users[k].ManagerId = None}

\* C10: generate_users returns exactly one user whose ManagerId is None, every
\* other user has that user's Id as ManagerId, and of NUM_USERS >= 1 users
\* all but one are managed
C10_SingleRoot ==
    "users" \in bound =>
        /\ Cardinality(RootUsers) = 1
        /\ \A k \in DOMAIN users \ RootUsers :
              \A r \in RootUsers : users[k].ManagerId = users[r].Id
        /\ cfg.users >= 1 => Cardinality(DOMAIN users \ RootUsers) = cfg.users - 1

\* generate_users has returned a manager and at least two sales reps
C10_Witness ==
    /\ "users" \in bound
    /\ Len(users) >= 3
    /\ \A k \in 2..Len(users) : users[k].ManagerId = users[1].Id

-----------------------------------------------------------------------------
(* Properties of generate_contacts *)

\* the number of contacts generate_contacts made for an account
ContactsAt(account) ==
    Cardinality({k \in DOMAIN contacts : contacts[k].AccountId = account.Id})

SumOfCaps == SumSeq([k \in DOMAIN accounts |-> ContactsCap(accounts[k])])

\* C7, as claimed: the number of contacts is the sum over the accounts of
\* min(5, max(1, NumberOfEmployees // 100))
C7_CountIsSumOfCaps == "contacts" \in bound => Len(contacts) = SumOfCaps

\* C7, amended: every account receives at least 1 and at most
\* min(5, max(1, NumberOfEmployees // 100)) contacts, so the number of
\* contacts lies between the number of accounts and the sum of those caps
C7_CountWithinCaps ==
    "contacts" \in bound =>
        /\ \A k \in DOMAIN accounts :
              /\ 1 <= ContactsAt(accounts[k])
              /\ ContactsAt(accounts[k]) <= ContactsCap(accounts[k])
        /\ Len(accounts) <= Len(contacts)
        /\ Len(contacts) <= SumOfCaps

\* two accounts of different sizes, one with fewer contacts than its cap
C7_Witness ==
    /\ "contacts" \in bound
    /\ Len(accounts) = 2
    /\ ContactsCap(accounts[1]) = 5
    /\ ContactsAt(accounts[1]) = 3
    /\ ContactsCap(accounts[2]) = 2
    /\ ContactsAt(accounts[2]) = 2

-----------------------------------------------------------------------------
(* Properties of generate_leads *)

\* C5: a converted lead has ConvertedAccountId, ConvertedContactId and
\* ConvertedDate set (ConvertedOpportunityId either way); a lead that is not
\* converted has all four conversion fields None
C5_ConversionFields ==
    \A l \in Range(leads) :
        IF l.IsConverted
        THEN /\ l.ConvertedAccountId # None
             /\ l.ConvertedContactId # None
             /\ l.ConvertedDate # None
        ELSE /\ l.ConvertedAccountId = None
             /\ l.ConvertedContactId = None
             /\ l.ConvertedOpportunityId = None
             /\ l.ConvertedDate = None

\* generate_leads has returned a converted lead without an opportunity and a
\* lead that is not converted
C5_Witness ==
    /\ "leads" \in bound
    /\ \E l \in Range(leads) : l.IsConverted /\ l.ConvertedOpportunityId = None
    /\ \E l \in Range(leads) : ~l.IsConverted

-----------------------------------------------------------------------------
(* Properties of generate_opportunities *)

\* C4: every opportunity, downgraded or not, is closed when won, is at
\* 'Closed Won' or 'Closed Lost' when closed, and has the Probability that
\* STAGES pairs with its StageName
C4_StageConsistency ==
    \A o \in Range(opportunities) :
        /\ o.IsWon => o.IsClosed
        /\ o.IsClosed => o.StageName \in {"Closed Won", "Closed Lost"}
        /\ \E k \in DOMAIN STAGES :
              STAGES[k][1] = o.StageName /\ STAGES[k][2] = o.Probability

\* generate_opportunities has returned a deal over $100k that is closed and
\* lost, as the downgraded deals are
C4_Witness ==
    /\ "opportunities" \in bound
    /\ \E o \in Range(opportunities) :
          /\ o.Amount > 10000000
          /\ o.IsClosed /\ ~o.IsWon
          /\ o.StageName = "Closed Lost" /\ o.Probability = 0

\* the line items of an opportunity
LineItemsOf(o) == SelectSeq(line_items, LAMBDA li : li.OpportunityId = o.Id)

\* C2: for every opportunity with line items the TotalPrice of its line items
\* add up to its Amount, to within the rounding of each item to the cent
C2_LineItemsSumToAmount ==
    \A o \in Range(opportunities) :
        LET items == LineItemsOf(o)
            total == SumSeq([j \in DOMAIN items |-> items[j].TotalPrice])
        IN  items # <<>> =>
                /\ total - o.Amount <= Len(items)
                /\ o.Amount - total <= Len(items)

-----------------------------------------------------------------------------
(* Properties of generate_campaign_members *)

\* C1: every campaign member has exactly one of LeadId and ContactId set,
\* never both and never neither
C1_LeadOrContact ==
    \A m \in Range(campaign_members) : (m.LeadId = None) # (m.ContactId = None)

\* generate_campaign_members has returned members of both kinds, for a
\* campaign that took part of the pool only
C1_Witness ==
    /\ "campaign_members" \in bound
    /\ \E m \in Range(campaign_members) : m.LeadId # None
    /\ \E m \in Range(campaign_members) : m.ContactId # None
    /\ \E c \in Range(campaigns) :
          Cardinality({k \in DOMAIN campaign_members :
                         campaign_members[k].CampaignId = c.Id})
            < Len(contacts) + Len(UnconvertedLeads)

-----------------------------------------------------------------------------
(* Properties of two runs of main *)

\* C3: two complete runs with the same seed and configuration, started at
\* any two times, produce the same campaigns and the same opportunities
C3_SameOutputAtAnyTime ==
    (twin.on /\ pc = "done") =>
        /\ twin.campaigns = campaigns
        /\ twin.opportunities = opportunities

\* the number of members generate_campaign_members made for a campaign
MembersOf(campaign) ==
    Cardinality({k \in DOMAIN campaign_members :
                   campaign_members[k].CampaignId = campaign.Id})

\* C11: a completed email campaign has as many members as its NumberSent
\* capped by the pool: min(NumberSent, contacts + unconverted leads)
C11_CompletedEmailMembers ==
    "campaign_members" \in bound =>
        \A c \in Range(campaigns) :
            (c.Status = "Completed" /\ c.Type = "Email") =>
                MembersOf(c) = Min(c.NumberSent, Len(contacts) + Len(UnconvertedLeads))

-----------------------------------------------------------------------------
(* Properties of the sampling steps *)

\* C12: no run of main fails in random.sample: the samples of contacts and of
\* unconverted leads for a campaign and of products for an opportunity are
\* asked for at most what their pool holds, an empty pool included
C12_SamplesFitPool == err.type # "ValueError"

\* a complete run with line items in which a completed campaign wanted a
\* lead although the pool of unconverted leads is empty
C12_Witness ==
    /\ pc = "done"
    /\ line_items # <<>>
    /\ contacts # <<>>
    /\ UnconvertedLeads = <<>>
    /\ \E c \in Range(campaigns) :
          /\ c.Status = "Completed"
          /\ NumMemberLeads(NumMembers(c, 100)) > 0
          /\ MembersOf(c) = Len(contacts) - 1

-----------------------------------------------------------------------------
(* Properties of the employee counts *)

\* C13: every account has NumberOfEmployees in [10, 100000] and every lead
\* has NumberOfEmployees in [10, 50000], whatever the log-normal draw
C13_EmployeesInRange ==
    /\ \A a \in Range(accounts) :
          10 <= a.NumberOfEmployees /\ a.NumberOfEmployees <= 100000
    /\ \A l \in Range(leads) :
          10 <= l.NumberOfEmployees /\ l.NumberOfEmployees <= 50000

\* an account and a lead whose draws were beyond the caps
C13_Witness ==
    /\ "leads" \in bound
    /\ \E a \in Range(accounts) : a.NumberOfEmployees = 100000
    /\ \E l \in Range(leads) : l.NumberOfEmployees = 50000

-----------------------------------------------------------------------------
(* Properties of load_json_file *)

\* C14: once a file was loaded, loading it again raises no error and leaves
\* the table with the rows of the first load: one row per Id, with the same
\* values in every column but loaded_at
C14_ReloadIsIdempotent ==
    db.loads >= 1 =>
        /\ err = NoError
        /\ Len(db.rows) = Len(db.first)
        /\ \A k \in DOMAIN db.rows :
              /\ db.rows[k].id = db.first[k].id
              /\ db.rows[k].status = db.first[k].status
              /\ db.rows[k].raw_data = db.first[k].raw_data
        /\ \A j, k \in DOMAIN db.rows : db.rows[j].id = db.rows[k].id => j = k

\* a file of two records, one with a blank status, was loaded twice
C14_Witness ==
    /\ db.loads = 2
    /\ Len(db.rows) = 2
    /\ \E k \in DOMAIN db.rows :
          db.rows[k].raw_data.Status \in {"", "null"} /\ db.rows[k].status = None
    /\ \A k \in DOMAIN db.rows : db.rows[k].loaded_at # db.first[k].loaded_at

-----------------------------------------------------------------------------
(* Properties of the identifiers *)

\* the records of every collection, in the order main generates them
AllRecords ==
    users \o accounts \o contacts \o leads \o campaigns \o products
          \o pricebook_entries \o opportunities \o line_items
          \o campaign_members \o tasks

\* C15: within a run no two generated records, of the same or of different
\* entity types, have the same Id
C15_IdsUnique ==
    \A j, k \in DOMAIN AllRecords : AllRecords[j].Id = AllRecords[k].Id => j = k

-----------------------------------------------------------------------------
(* Properties of the owners *)

\* whether id is the Id of a user whose IsActive is true
IsActiveUser(id) == \E u \in Range(users) : u.Id = id /\ u.IsActive

\* C16: the OwnerId of every account, opportunity, lead, campaign and task is
\* the Id of an active user, whatever users are inactive
C16_OwnersAreActive ==
    \A owned \in {accounts, opportunities, leads, campaigns, tasks} :
        \A r \in Range(owned) : IsActiveUser(r.OwnerId)

\* a complete run with records of the five kinds in which every user but
\* the manager is inactive
C16_Witness ==
    /\ pc = "done"
    /\ Len(users) >= 2
    /\ \A k \in 2..Len(users) : ~users[k].IsActive
    /\ \A owned \in {accounts, opportunities, leads, campaigns, tasks} : owned # <<>>

-----------------------------------------------------------------------------
(* Properties of the date samplers *)

\* C17: the date random_date_weighted_quarter_end(start, end) returns lies in
\* [start, end], moved to the quarter end or not, so the CloseDate of every
\* open opportunity is not before the day of generation and not more than
\* 180 days after it
C17_CloseDateLooksForward ==
    \A o \in Range(opportunities) :
        ~o.IsClosed =>
            /\ now <= ParseDate(o.CloseDate)
            /\ ParseDate(o.CloseDate) <= now + 180

-----------------------------------------------------------------------------
(* Properties of the line items *)

\* round(n / q) as Python rounds: to the nearest integer, halves to the even
RoundHalfEven(n, q) ==
    LET f == n \div q
        r == 2 * (n % q)
    IN  IF r > q \/ (r = q /\ f % 2 = 1) THEN f + 1 ELSE f

\* C18, as claimed: the Quantity of every line item is
\* max(1, round(item_amount / unit_price))
C18_QuantityIsRounded ==
    \A li \in Range(line_items) :
        li.Quantity = Max(1, RoundHalfEven(li.item_amount, li.UnitPrice))

\* C18, amended: the Quantity of every line item is max(1, the whole part of
\* item_amount / unit_price), the fraction dropped, and so at least 1
C18_QuantityIsTruncated ==
    \A li \in Range(line_items) :
        /\ li.Quantity = Max(1, li.item_amount \div li.UnitPrice)
        /\ li.Quantity >= 1
        /\ li.UnitPrice = UnitPriceOf(li.Product2Id)

\* a line item whose share is more than one and a half unit prices, and one
\* whose share is less than a unit price
C18_Witness ==
    /\ "line_items" \in bound
    /\ \E li \in Range(line_items) :
          /\ 2 * li.item_amount > 3 * li.UnitPrice
          /\ li.item_amount < 2 * li.UnitPrice
          /\ li.Quantity = 1
    /\ \E li \in Range(line_items) : li.item_amount < li.UnitPrice /\ li.Quantity = 1

-----------------------------------------------------------------------------
(* Properties of the campaigns *)

\* the campaigns of the first pass, and those of the second
ParentPass == {k \in DOMAIN campaigns : k <= NumParentCampaigns}

ChildPass == DOMAIN campaigns \ ParentPass

\* EndDate is before the time of the run: it is a midnight, the run is later
\* in its day
HasEnded(c) == ParseDate(c.EndDate) <= now

\* StartDate is after the time of the run
StartsLater(c) == ParseDate(c.StartDate) > now

\* C19: in both passes a campaign that is Planned or In Progress has
\* ActualCost 0, and a campaign whose EndDate is in the past, which is
\* Completed or Aborted, has ActualCost greater than 0
C19_CostOnlyWhenEnded ==
    \A k \in DOMAIN campaigns :
        LET c == campaigns[k]
        IN  /\ c.Status \in {"Planned", "In Progress"} => c.ActualCost = 0
            /\ HasEnded(c) => c.Status \in {"Completed", "Aborted"} /\ c.ActualCost > 0

\* a parent that ended next to a child that is yet to start, and the reverse
\* in another run: a parent in progress next to a child that ended
C19_Witness ==
    /\ "campaigns" \in bound
    /\ \/ \E p \in ParentPass, c \in ChildPass :
             /\ HasEnded(campaigns[p]) /\ campaigns[p].ActualCost > 0
             /\ campaigns[c].Status = "Planned" /\ campaigns[c].ActualCost = 0
       \/ \E p \in ParentPass, c \in ChildPass :
             /\ campaigns[p].Status = "In Progress" /\ campaigns[p].ActualCost = 0
             /\ HasEnded(campaigns[c]) /\ campaigns[c].ActualCost > 0

\* C20: Status is Completed or Aborted exactly when EndDate is before the time
\* of the run, Planned exactly when the campaign has not ended and StartDate is
\* after it, and In Progress in every other case; there is no other status
C20_StatusFollowsDates ==
    \A c \in Range(campaigns) :
        /\ c.Status \in {"Completed", "Aborted", "Planned", "In Progress"}
        /\ c.Status \in {"Completed", "Aborted"} <=> HasEnded(c)
        /\ c.Status = "Planned" <=> ~HasEnded(c) /\ StartsLater(c)
        /\ c.Status = "In Progress" <=> ~HasEnded(c) /\ ~StartsLater(c)

\* one run with a campaign that ended Completed, one that ended Aborted and
\* one yet to start; EndDate or StartDate on the day of the run among them
C20_Witness ==
    /\ "campaigns" \in bound
    /\ \E a, b, c \in Range(campaigns) :
          /\ a.Status = "Completed" /\ HasEnded(a)
          /\ b.Status = "Aborted" /\ ParseDate(b.EndDate) = now
          /\ c.Status = "Planned" /\ StartsLater(c)

\* C21: a campaign of the parent pass has no ParentId; a ParentId of the
\* child pass is the Id of a campaign of the parent pass, which is another
\* record than the child and has no parent itself: no campaign is its own
\* parent and the hierarchy has two levels, identifiers colliding or not
C21_TwoLevelHierarchy ==
    /\ \A p \in ParentPass : campaigns[p].ParentId = None
    /\ \A c \in ChildPass :
          campaigns[c].ParentId # None =>
              \E p \in ParentPass :
                  /\ p # c
                  /\ campaigns[p].Id = campaigns[c].ParentId
                  /\ campaigns[p].ParentId = None

\* generate_campaigns has returned a child of the parent campaign and a
\* child without parent
C21_Witness ==
    /\ "campaigns" \in bound
    /\ \E c \in ChildPass :
          \E p \in ParentPass : campaigns[c].ParentId = campaigns[p].Id
    /\ \E c \in ChildPass : campaigns[c].ParentId = None

-----------------------------------------------------------------------------
(* Properties of the age of an opportunity *)

\* the age of an opportunity: END_DATE minus its creation date, in days
AgeOf(o) == END_DATE - ParseDate(o.CreatedDate)

OpenStages == {STAGES[k][1] : k \in 1..5}

\* generate_opportunities is about to create an opportunity
AboutToCreate == pc = "opportunities" /\ i < cfg.opportunities /\ accounts # <<>>

\* the values of IsClosed that the next opportunity can get when it is
\* created on the given day
ClosedOutcomes(created) ==
    {OpportunityStage(d, OpportunityAmount(d.base_amount, a.NumberOfEmployees)).IsClosed :
        d \in {e \in OpportunityDraws(now) : e.created = created},
        a \in Range(accounts)}

\* the creation days the next opportunity can get
CreationDays == {d.created : d \in OpportunityDraws(now)}

\* C22, as claimed: an opportunity younger than 90 days is open, at an open
\* stage; an opportunity about to be created at an age of 90 days or more can
\* come out closed and can come out open
C22_ClosedFromNinetyDays ==
    /\ \A o \in Range(opportunities) :
          AgeOf(o) < 90 => ~o.IsClosed /\ o.StageName \in OpenStages
    /\ AboutToCreate =>
          \A created \in CreationDays :
              DaysOld(created) >= 90 => ClosedOutcomes(created) = BOOLEAN

\* C22, amended: an opportunity of 90 days or less is open, at an open stage;
\* an opportunity about to be created at an age of more than 90 days can come
\* out closed and can come out open, and one of 90 days or less only open
C22_ClosedAfterNinetyDays ==
    /\ \A o \in Range(opportunities) :
          /\ AgeOf(o) <= 90 => ~o.IsClosed /\ o.StageName \in OpenStages
          /\ o.IsClosed => o.StageName \in {"Closed Won", "Closed Lost"}
    /\ AboutToCreate =>
          \A created \in CreationDays :
              ClosedOutcomes(created) =
                  IF DaysOld(created) > 90 THEN BOOLEAN ELSE {FALSE}

\* a deal of exactly 90 days, open, next to a closed deal of 91 days
C22_Witness ==
    /\ "opportunities" \in bound
    /\ \E o \in Range(opportunities) : AgeOf(o) = 90 /\ ~o.IsClosed
    /\ \E o \in Range(opportunities) :
          AgeOf(o) = 91 /\ o.IsClosed /\ o.StageName = "Closed Won"

-----------------------------------------------------------------------------
(* Properties of random_date *)

\* the call of random_date has ended, with a date or with an exception
CallEnded == pc \in {"done", "raised"}

-----------------------------------------------------------------------------
(* Properties of the leads *)

\* C24: a converted lead has Status 'Closed - Converted'; an unconverted lead
\* has Status 'Open - Not Contacted' or 'Working - Contacted', never a
\* 'Closed' one
C24_StatusByConversion ==
    \A l \in Range(leads) :
        /\ l.IsConverted => l.Status = "Closed - Converted"
        /\ ~l.IsConverted =>
              /\ l.Status \in {"Open - Not Contacted", "Working - Contacted"}
              /\ l.Status \notin {"Closed - Converted", "Closed - Not Converted"}

\* generate_leads has returned a converted lead and a lead being worked
C24_Witness ==
    /\ "leads" \in bound
    /\ \E l \in Range(leads) : l.IsConverted /\ l.Status = "Closed - Converted"
    /\ \E l \in Range(leads) : ~l.IsConverted /\ l.Status = "Working - Contacted"

-----------------------------------------------------------------------------
(* Properties of the leads of a campaign *)

\* the members of a campaign that are leads
LeadMembersOf(c) ==
    {k \in DOMAIN campaign_members :
        campaign_members[k].CampaignId = c.Id /\ campaign_members[k].LeadId # None}

\* C25: the LeadId of every campaign member is the Id of a lead that is not
\* converted, and no campaign has more leads among its members than there
\* are unconverted leads: the converted leads are members of no campaign
C25_MembersAreUnconverted ==
    /\ \A m \in Range(campaign_members) :
          m.LeadId # None =>
              \E l \in Range(leads) : l.Id = m.LeadId /\ ~l.IsConverted
    /\ Cardinality({c.Id : c \in Range(campaigns)}) = Len(campaigns) =>
          \A c \in Range(campaigns) :
              Cardinality(LeadMembersOf(c)) <= Len(UnconvertedLeads)

\* a completed email campaign took its one lead from a pool of a converted
\* and an unconverted lead
C25_Witness ==
    /\ "campaign_members" \in bound
    /\ \E l \in Range(leads) : l.IsConverted
    /\ Len(UnconvertedLeads) = 1
    /\ \E m \in Range(campaign_members) : m.LeadId = UnconvertedLeads[1].Id

-----------------------------------------------------------------------------
(* Properties of the tasks *)

\* the opportunities of the account a task is about
OpportunitiesAt(t) == {o \in Range(opportunities) : o.AccountId = t.WhatId}

-----------------------------------------------------------------------------
(* Properties of the timestamps *)

\* C27: the LastModifiedDate of every account, opportunity, campaign, lead and
\* campaign member is its CreatedDate or later
C27_ModifiedAfterCreated ==
    /\ \A r \in Range(accounts) :
          ParseDate(r.LastModifiedDate) >= ParseDate(r.CreatedDate)
    /\ \A r \in Range(opportunities) :
          ParseDate(r.LastModifiedDate) >= ParseDate(r.CreatedDate)
    /\ \A r \in Range(campaigns) :
          ParseDate(r.LastModifiedDate) >= ParseDate(r.CreatedDate)
    /\ \A r \in Range(leads) :
          ParseDate(r.LastModifiedDate) >= ParseDate(r.CreatedDate)
    /\ \A r \in Range(campaign_members) :
          ParseDate(r.LastModifiedDate) >= ParseDate(r.CreatedDate)

\* records of the five kinds, among them an account and a campaign member
\* modified on the day of their creation and an account modified 30 days later
C27_Witness ==
    /\ "campaign_members" \in bound
    /\ opportunities # <<>> /\ leads # <<>> /\ campaigns # <<>>
    /\ \E r \in Range(accounts) :
          ParseDate(r.LastModifiedDate) = ParseDate(r.CreatedDate) + 30
    /\ \E r \in Range(campaign_members) : r.LastModifiedDate = r.CreatedDate
    /\ \E r \in Range(campaign_members) :
          ParseDate(r.LastModifiedDate) = ParseDate(r.CreatedDate) + 7

-----------------------------------------------------------------------------
(* Properties of the counts *)

\* C28, as claimed: each generator driven by a count returns as many records
\* as its NUM_* constant says, for every count from 0 on
C28_ExactCounts ==
    /\ "users" \in bound => Len(users) = cfg.users
    /\ "accounts" \in bound => Len(accounts) = cfg.accounts
    /\ "leads" \in bound => Len(leads) = cfg.leads
    /\ "campaigns" \in bound => Len(campaigns) = cfg.campaigns
    /\ "opportunities" \in bound => Len(opportunities) = cfg.opportunities
    /\ "tasks" \in bound => Len(tasks) = cfg.activities

-----------------------------------------------------------------------------
(* Properties of load_all_data *)

\* the rows of file f that are visible in its table
Visible(f) == loader.tables[f]

\* C29: at every moment of the loader's run the table of a file holds all of
\* the file's rows when the file came before the one being loaded and is not
\* missing, and none of them otherwise: nothing of the file being loaded or
\* of the file that failed, whatever was executed of it; a run fails only on
\* a file with a rejected record, never on a missing file, and a run that
\* does not fail has gone through every file
C29_AtomicPerFile ==
    /\ \A f \in DOMAIN loader.files :
          Visible(f) = IF f < loader.at /\ loader.files[f].kind = "file"
                       THEN loader.files[f].count ELSE 0
    /\ pc = "raised" =>
          /\ loader.at \in DOMAIN loader.files
          /\ loader.files[loader.at].bad > 0
          /\ \A f \in 1..(loader.at - 1) : loader.files[f].bad = 0
    /\ pc = "done" =>
          /\ loader.at = Len(loader.files) + 1
          /\ \A f \in DOMAIN loader.files : loader.files[f].bad = 0
          /\ loader.tx = 0

\* the second file has failed in its second page, after its first page was
\* executed: the rows of the first file are committed, none of the second
C29_Witness ==
    /\ pc = "raised"
    /\ loader.at = 2
    /\ loader.tx = page_size
    /\ loader.files[2].bad = page_size + 1
    /\ Visible(1) = 2 * page_size + 1
    /\ Visible(2) = 0

-----------------------------------------------------------------------------
(* Properties of the DAG *)

\* task t has been started at least once
Started(t) == dag.try_number[t] > 0

\* C30: the seven tasks run in the order generate, load, staging,
\* intermediate, marts, test, docs: a task has been started only if the task
\* before it succeeded, so the load only after the generation and every dbt
\* step only after the load; a task is tried at most 3 times, that is retried
\* at most 2 times, and when it failed the tasks after it are never started
C30_LinearOrder ==
    /\ Len(TASKS) = 7
    /\ \A t \in DOMAIN TASKS :
          /\ Started(t) => \A u \in 1..(t - 1) : dag.state[u] = "success"
          /\ dag.state[t] \in {"running", "up_for_retry", "success", "failed"}
                => Started(t)
          /\ dag.try_number[t] <= 1 + 2
          /\ dag.state[t] = "failed" =>
                /\ dag.try_number[t] = 1 + 2
                /\ \A v \in (t + 1)..Len(TASKS) :
                      ~Started(v) /\ dag.state[v] \in {"none", "upstream_failed"}
    /\ Started(2) => dag.state[1] = "success"
    /\ \A t \in 3..Len(TASKS) : Started(t) => dag.state[2] = "success"

\* the load succeeded at its third try, the staging models failed three
\* times and no later task was started
C30_Witness ==
    /\ dag.state[1] = "success"
    /\ dag.state[2] = "success" /\ dag.try_number[2] = 3
    /\ dag.state[3] = "failed" /\ dag.try_number[3] = 3
    /\ \A v \in 4..7 : dag.state[v] = "upstream_failed" /\ dag.try_number[v] = 0

=============================================================================
